---- MODULE Spec2Model ----
(***************************************************************************)
(* Model of scripts/aggregate_results.py: the cross-instance reconciler    *)
(* (load_all_source_results, cross_validate_results), the circuit-failure  *)
(* deduplication of main, and aggregate_results (streak tracking, counts). *)
(*                                                                         *)
(* A JSON object is a TLA+ record whose DOMAIN is the set of keys present. *)
(* Python's None in a string slot is the string None below; a dict that    *)
(* keeps insertion order is a sequence of entries.                         *)
(***************************************************************************)
EXTENDS Integers, Sequences, FiniteSets, TLC

(***************************************************************************)
(* Bounds of the model.                                                    *)
(***************************************************************************)
\* total_ms samples are drawn from 0..MaxTotalMs
MaxTotalMs == 1
\* consecutive_failures of a previous report's record is drawn from 0..MaxPrevFailures
MaxPrevFailures == 2

\* the largest number of timing samples drawn freely, and their largest value
MaxSamples == 3

MaxSampleMs == 3

\* the largest number of runs of main in a chain of runs
MaxRuns == 3

None == "<None>"
\* what None is in the total_ms slot of the averaged timing (line 293)
NullMs == -1

VARIABLES
    mode,             \* "cv" when args.cross_validate and args.sources, else "single"
    source_dirs,      \* args.sources (cv) or <<args.input>> (single): basenames split at '_'
    files,            \* per directory: the dnshealth_*.json documents, in listing order
    cf_files,         \* per directory: the entries of its circuit_failures.json
    scan_files,       \* per directory: total_circuits of its scan_stats.json (0: none)
    previous,         \* the previous report file [results |-> ...], or NoReport
    pc,               \* position of main: "start", "loaded", "deduped", "done", "exit1"
    all_results,      \* load_all_source_results: fp -> {instance_name: result}
    results,          \* main's results list; aggregate_results appends to it
    origin,           \* ghost, parallel to results: "doc" or "cf" (where the record came from)
    cv_stats,         \* cross_validate_results' statistics, or NoStats
    circuit_failures, \* main's circuit_failures list
    report,           \* the report written, or NoReport
    history           \* ghost: the reports of the earlier runs and calls, oldest first

vars == <<mode, source_dirs, files, cf_files, scan_files, previous, pc, all_results,
          results, origin, cv_stats, circuit_failures, report, history>>

NoReport == [no_report |-> TRUE]
NoStats == [no_cv_stats |-> TRUE]

(***************************************************************************)
(* dict access                                                             *)
(***************************************************************************)
Has(r, k) == k \in DOMAIN r
Get(r, k, d) == IF k \in DOMAIN r THEN r[k] ELSE d
\* d[k] = v on a record
Put(r, k, v) == [x \in DOMAIN r \cup {k} |-> IF x = k THEN v ELSE r[x]]
\* Python truthiness of a loaded document / a dict ({} and None are falsy)
Truthy(d) == DOMAIN d # {}
\* Python truthiness of a fingerprint (None and "" are falsy)
TruthyFp(fp) == fp # None /\ fp # ""

\* what a file holds when it cannot be opened or is not JSON
Unreadable == [unreadable |-> TRUE]
\* what a file holds when it is JSON but not an object: a non-empty array
NonObject == [json_array |-> TRUE]
\* lines 82-89: the parsed content, or None (written <<>>, falsy) after a warning
_load_json_file(file) == IF file = Unreadable THEN <<>> ELSE file
\* lines 171-190: every truthy parsed document of the directory, in listing order
load_results(fs) == SelectSeq([i \in DOMAIN fs |-> _load_json_file(fs[i])], Truthy)
\* result.get raises AttributeError when a parsed document is not an object
Raises(docs) == \E i \in DOMAIN docs : docs[i] = NonObject

(***************************************************************************)
(* Status taxonomy                                                         *)
(***************************************************************************)
\* mutant: the ranks of dns_fail and timeout exchanged
PriorityTimeoutFirst ==
    [s \in {"success", "wrong_ip", "dns_fail", "socks_error", "network_error",
            "error", "timeout", "hard_timeout", "exception", "unknown",
            "relay_unreachable"} |->
        CASE s = "success" -> 0
          [] s = "wrong_ip" -> 1
          [] s = "dns_fail" -> 6
          [] s = "socks_error" -> 3
          [] s = "network_error" -> 4
          [] s = "error" -> 5
          [] s = "timeout" -> 2
          [] s = "hard_timeout" -> 2
          [] s = "exception" -> 7
          [] s = "unknown" -> 8
          [] s = "relay_unreachable" -> 9]

\* mutant: error given the rank of network_error
PriorityErrorTie ==
    [s \in {"success", "wrong_ip", "dns_fail", "socks_error", "network_error",
            "error", "timeout", "hard_timeout", "exception", "unknown",
            "relay_unreachable"} |->
        CASE s = "success" -> 0
          [] s = "wrong_ip" -> 1
          [] s = "dns_fail" -> 2
          [] s = "socks_error" -> 3
          [] s = "network_error" -> 4
          [] s = "error" -> 4
          [] s = "timeout" -> 6
          [] s = "hard_timeout" -> 6
          [] s = "exception" -> 7
          [] s = "unknown" -> 8
          [] s = "relay_unreachable" -> 9]

CROSS_VALIDATION_RESULT_PRIORITY ==
    [s \in {"success", "wrong_ip", "dns_fail", "socks_error", "network_error",
            "error", "timeout", "hard_timeout", "exception", "unknown",
            "relay_unreachable"} |->
        CASE s = "success" -> 0
          [] s = "wrong_ip" -> 1
          [] s = "dns_fail" -> 2
          [] s = "socks_error" -> 3
          [] s = "network_error" -> 4
          [] s = "error" -> 5
          [] s = "timeout" -> 6
          [] s = "hard_timeout" -> 6
          [] s = "exception" -> 7
          [] s = "unknown" -> 8
          [] s = "relay_unreachable" -> 9]

\* the sort key of line 270: PRIORITY.get(x[1].get("status", "unknown"), 99)
PriorityKey(result) ==
    LET s == Get(result, "status", "unknown")
    IN  IF s \in DOMAIN CROSS_VALIDATION_RESULT_PRIORITY
        THEN CROSS_VALIDATION_RESULT_PRIORITY[s] ELSE 99

CIRCUIT_FAILURE_TYPES ==
    <<"circuit_timeout", "circuit_destroyed", "circuit_channel_closed",
      "circuit_connect_failed", "circuit_no_path", "circuit_resource_limit",
      "circuit_hibernating", "circuit_finished", "circuit_connection_closed",
      "circuit_io_error", "circuit_protocol_error", "circuit_internal_error",
      "circuit_requested", "circuit_no_service", "circuit_measurement_expired",
      "circuit_guard_limit", "circuit_failed">>

CIRCUIT_REASON_MAP ==
    [r \in {"circuit_timeout", "circuit_destroyed", "channel_closed",
            "relay_connect_failed", "circuit_no_path", "relay_resource_limit",
            "relay_hibernating", "circuit_finished", "relay_connection_closed",
            "io_error", "tor_protocol_error", "tor_internal_error",
            "circuit_requested", "no_such_service", "measurement_expired",
            "guard_limit", "circuit_failed"} |->
        CASE r = "circuit_timeout" -> "circuit_timeout"
          [] r = "circuit_destroyed" -> "circuit_destroyed"
          [] r = "channel_closed" -> "circuit_channel_closed"
          [] r = "relay_connect_failed" -> "circuit_connect_failed"
          [] r = "circuit_no_path" -> "circuit_no_path"
          [] r = "relay_resource_limit" -> "circuit_resource_limit"
          [] r = "relay_hibernating" -> "circuit_hibernating"
          [] r = "circuit_finished" -> "circuit_finished"
          [] r = "relay_connection_closed" -> "circuit_connection_closed"
          [] r = "io_error" -> "circuit_io_error"
          [] r = "tor_protocol_error" -> "circuit_protocol_error"
          [] r = "tor_internal_error" -> "circuit_internal_error"
          [] r = "circuit_requested" -> "circuit_requested"
          [] r = "no_such_service" -> "circuit_no_service"
          [] r = "measurement_expired" -> "circuit_measurement_expired"
          [] r = "guard_limit" -> "circuit_guard_limit"
          [] r = "circuit_failed" -> "circuit_failed"]

\* mutant: a reason the map does not list is counted under its raw name
NormalizeKeepRaw(reason) ==
    IF reason \in DOMAIN CIRCUIT_REASON_MAP THEN CIRCUIT_REASON_MAP[reason]
    ELSE reason

\* mutant: a reason the map does not list is counted as a timeout
NormalizeDefaultTimeout(reason) ==
    IF reason \in DOMAIN CIRCUIT_REASON_MAP THEN CIRCUIT_REASON_MAP[reason]
    ELSE "circuit_timeout"

_normalize_circuit_reason(reason) ==
    IF reason \in DOMAIN CIRCUIT_REASON_MAP THEN CIRCUIT_REASON_MAP[reason]
    ELSE "circuit_failed"

(***************************************************************************)
(* Sequence helpers                                                        *)
(***************************************************************************)
Range(s) == {s[i] : i \in DOMAIN s}

RECURSIVE SumSeq(_)
SumSeq(s) == IF s = <<>> THEN 0 ELSE s[1] + SumSeq(Tail(s))

RECURSIVE Concat(_)
\* list.extend over a sequence of lists
Concat(ss) == IF ss = <<>> THEN <<>> ELSE ss[1] \o Concat(Tail(ss))

\* Python 3 round() of the quotient total / n of two non-negative integers:
\* to the nearest integer, a tie going to the even one
Round(total, n) ==
    LET q == total \div n
        r == total % n
    IN  IF 2 * r < n THEN q
        ELSE IF 2 * r > n THEN q + 1
        ELSE IF q % 2 = 0 THEN q ELSE q + 1

(***************************************************************************)
(* load_all_source_results                                                 *)
(***************************************************************************)
\* parts[-1] of basename.split('_'); split never returns an empty list
_get_instance_name(source_dir) == source_dir[Len(source_dir)]

\* mutant: every document opens an entry of its own
SetResultAppend(all, fp, inst, result) ==
    Append(all, [fp |-> fp, insts |-> <<[inst |-> inst, result |-> result]>>])

\* all_results.setdefault(fp, {})[instance_name] = result, on insertion-ordered
\* dicts: a new key goes last, an existing key keeps its place
SetResult(all, fp, inst, result) ==
    LET entry == [inst |-> inst, result |-> result]
    IN  IF \E i \in DOMAIN all : all[i].fp = fp
        THEN LET i == CHOOSE k \in DOMAIN all : all[k].fp = fp
                 insts == all[i].insts
             IN  [all EXCEPT ![i].insts =
                    IF \E j \in DOMAIN insts : insts[j].inst = inst
                    THEN [j \in DOMAIN insts |->
                            IF insts[j].inst = inst THEN entry ELSE insts[j]]
                    ELSE Append(insts, entry)]
        ELSE Append(all, [fp |-> fp, insts |-> <<entry>>])

RECURSIVE LoadSourceDir(_, _, _)
\* lines 224-229: the documents of one source directory
LoadSourceDir(all, inst, docs) ==
    IF docs = <<>> THEN all
    ELSE LET result == _load_json_file(docs[1])
             fp == Get(result, "exit_fingerprint", None)
         IN  LoadSourceDir(IF Truthy(result) /\ TruthyFp(fp)
                           THEN SetResult(all, fp, inst, result) ELSE all,
                           inst, Tail(docs))

RECURSIVE LoadSourceDirs(_, _, _, _)
LoadSourceDirs(all, dirs, fs, i) ==
    IF i > Len(dirs) THEN all
    ELSE LoadSourceDirs(LoadSourceDir(all, _get_instance_name(dirs[i]), fs[i]),
                        dirs, fs, i + 1)

load_all_source_results(dirs, fs) ==
    [all_results |-> LoadSourceDirs(<<>>, dirs, fs, 1),
     instance_names |-> [i \in DOMAIN dirs |-> _get_instance_name(dirs[i])]]

(***************************************************************************)
(* cross_validate_results                                                  *)
(***************************************************************************)
\* Python truthiness of the value of a copied key
TruthyValue(k, v) == IF k = "timing" THEN Truthy(v) ELSE v # None /\ v # ""

DetailKeys == {"attempt", "timing", "resolved_ip", "expected_ip", "error"}

_extract_instance_detail(result) ==
    LET keys == {k \in DetailKeys \cap DOMAIN result : TruthyValue(k, result[k])}
    IN  [k \in {"status"} \cup keys |->
            IF k = "status" THEN Get(result, "status", "unknown") ELSE result[k]]

RECURSIVE InsertByPriorityUnstable(_, _)
\* mutant: e goes before the elements of equal key, the last of a tie wins
InsertByPriorityUnstable(sorted, e) ==
    IF sorted = <<>> THEN <<e>>
    ELSE IF PriorityKey(sorted[1].result) < PriorityKey(e.result)
         THEN <<sorted[1]>> \o InsertByPriorityUnstable(Tail(sorted), e)
         ELSE <<e>> \o sorted

RECURSIVE InsertByPriority(_, _)
\* e goes after every element whose key is not greater: the sort is stable
InsertByPriority(sorted, e) ==
    IF sorted = <<>> THEN <<e>>
    ELSE IF PriorityKey(sorted[1].result) <= PriorityKey(e.result)
         THEN <<sorted[1]>> \o InsertByPriority(Tail(sorted), e)
         ELSE <<e>> \o sorted

RECURSIVE SortedDescending(_)
\* mutant: sorted(..., reverse=True)
SortedDescending(insts) ==
    IF insts = <<>> THEN <<>>
    ELSE LET rest == SortedDescending(Tail(insts))
             worse == SelectSeq(rest, LAMBDA e :
                         PriorityKey(e.result) > PriorityKey(insts[1].result))
             others == SelectSeq(rest, LAMBDA e :
                         PriorityKey(e.result) <= PriorityKey(insts[1].result))
         IN  worse \o <<insts[1]>> \o others

RECURSIVE SortedResults(_)
\* sorted(instance_results.items(), key=priority), lines 268-271
SortedResults(insts) ==
    IF insts = <<>> THEN <<>>
    ELSE InsertByPriority(SortedResults(SubSeq(insts, 1, Len(insts) - 1)),
                          insts[Len(insts)])

\* statuses = [r.get("status") for r in instance_results.values()], line 275
StatusList(insts) == [j \in DOMAIN insts |-> Get(insts[j].result, "status", None)]

SuccessCount(statuses) == Cardinality({j \in DOMAIN statuses : statuses[j] = "success"})

\* mutant: improved as soon as one instance succeeded
ImprovedAnySuccess(success_count, n) == success_count > 0

\* line 301
Improved(success_count, n) == success_count > 0 /\ success_count < n

\* mutant: a target with a success is all_success
ConsistencyBucketAnySuccess(success_count, n) ==
    IF success_count > 0 THEN "all_success"
    ELSE IF success_count = 0 THEN "all_failed"
    ELSE "mixed"

\* lines 278-283: the consistency bucket of one target
ConsistencyBucket(success_count, n) ==
    IF success_count = n THEN "all_success"
    ELSE IF success_count = 0 THEN "all_failed"
    ELSE "mixed"

\* lines 286-289
SuccessfulTimings(insts) ==
    LET ok(e) == /\ Get(e.result, "status", None) = "success"
                 /\ Has(e.result, "timing")
                 /\ Truthy(e.result.timing)
        sel == SelectSeq(insts, ok)
    IN  [j \in DOMAIN sel |-> sel[j].result.timing]

\* mutant: the timing of the first successful instance, not the mean
FirstTiming(successful_timings) ==
    [total_ms |-> Get(successful_timings[1], "total_ms", NullMs)]

\* lines 292-293
AverageTiming(successful_timings) ==
    LET hasTotal(t) == Has(t, "total_ms") /\ t.total_ms # NullMs
        sel == SelectSeq(successful_timings, hasTotal)
        total_values == [j \in DOMAIN sel |-> sel[j].total_ms]
    IN  [total_ms |-> IF total_values # <<>>
                      THEN Round(SumSeq(total_values), Len(total_values))
                      ELSE NullMs]

\* mutant: wrong_ip counted with dns_fail
RecoveryCounterDefinitive(s) ==
    IF s \in {"timeout", "hard_timeout"} THEN "recovered_from_timeout"
    ELSE IF s \in {"dns_fail", "wrong_ip"} THEN "recovered_from_dns_fail"
    ELSE "recovered_from_error"

\* lines 312-317: the counter one outranked status increments
RecoveryCounter(s) ==
    IF s \in {"timeout", "hard_timeout"} THEN "recovered_from_timeout"
    ELSE IF s = "dns_fail" THEN "recovered_from_dns_fail"
    ELSE "recovered_from_error"

\* mutant: the timing is replaced whether or not a successful instance has one
MergeTargetAlwaysTimed(insts) ==
    LET best == SortedResults(insts)[1]
        statuses == StatusList(insts)
        success_count == SuccessCount(statuses)
        timed == Put(best.result, "timing",
                     AverageTiming(SuccessfulTimings(insts)))
        improved == Improved(success_count, Len(statuses))
        detail == [result_source |-> best.inst,
                   instances_success |-> success_count,
                   instances_total |-> Len(insts),
                   improved |-> improved,
                   per_instance |-> [j \in DOMAIN insts |->
                        [inst |-> insts[j].inst,
                         detail |-> _extract_instance_detail(insts[j].result)]]]
        cv_detail == IF improved
                     THEN Put(detail, "recovered_from",
                              SelectSeq(statuses, LAMBDA s : s # "success"))
                     ELSE detail
    IN  Put(timed, "cv", cv_detail)

\* lines 256-322, one iteration: the merged record of one target
MergeTarget(insts) ==
    LET best == SortedResults(insts)[1]
        statuses == StatusList(insts)
        success_count == SuccessCount(statuses)
        successful_timings == SuccessfulTimings(insts)
        timed == IF successful_timings # <<>>
                 THEN Put(best.result, "timing", AverageTiming(successful_timings))
                 ELSE best.result
        improved == Improved(success_count, Len(statuses))
        detail == [result_source |-> best.inst,
                   instances_success |-> success_count,
                   instances_total |-> Len(insts),
                   improved |-> improved,
                   per_instance |-> [j \in DOMAIN insts |->
                        [inst |-> insts[j].inst,
                         detail |-> _extract_instance_detail(insts[j].result)]]]
        cv_detail == IF improved
                     THEN Put(detail, "recovered_from",
                              SelectSeq(statuses, LAMBDA s : s # "success"))
                     ELSE detail
    IN  Put(timed, "cv", cv_detail)

\* mutant: the counters are incremented whether or not the target improved
RecoveredUnconditional(insts, c) ==
    LET statuses == StatusList(insts)
    IN  Cardinality({j \in DOMAIN statuses :
                        statuses[j] # "success" /\ RecoveryCounter(statuses[j]) = c})

\* the number of statuses of one target that increment counter c (lines 306-317)
Recovered(insts, c) ==
    LET statuses == StatusList(insts)
    IN  IF Improved(SuccessCount(statuses), Len(statuses))
        THEN Cardinality({j \in DOMAIN statuses :
                            statuses[j] # "success" /\ RecoveryCounter(statuses[j]) = c})
        ELSE 0

CountTargets(all, P(_)) == Cardinality({i \in DOMAIN all : P(all[i].insts)})

SumTargets(all, F(_)) == SumSeq([i \in DOMAIN all |-> F(all[i].insts)])

Bucket(insts) ==
    LET statuses == StatusList(insts)
    IN  ConsistencyBucket(SuccessCount(statuses), Len(statuses))

IsImproved(insts) ==
    LET statuses == StatusList(insts)
    IN  Improved(SuccessCount(statuses), Len(statuses))

\* cross_validate_results: the merged list and cv_stats (per_instance_stats,
\* the per-instance status counters, are not modelled)
cross_validate_results(dirs, fs) ==
    LET loaded == load_all_source_results(dirs, fs)
        all == loaded.all_results
    IN  [all_results |-> all,
         merged |-> [i \in DOMAIN all |-> MergeTarget(all[i].insts)],
         cv_stats |->
            [improved |-> CountTargets(all, IsImproved),
             instances |-> Len(dirs),
             instance_names |-> loaded.instance_names,
             recovered_from_timeout |->
                SumTargets(all, LAMBDA x : Recovered(x, "recovered_from_timeout")),
             recovered_from_dns_fail |->
                SumTargets(all, LAMBDA x : Recovered(x, "recovered_from_dns_fail")),
             recovered_from_error |->
                SumTargets(all, LAMBDA x : Recovered(x, "recovered_from_error")),
             consistency |->
                [all_success |-> CountTargets(all, LAMBDA x : Bucket(x) = "all_success"),
                 all_failed |-> CountTargets(all, LAMBDA x : Bucket(x) = "all_failed"),
                 mixed |-> CountTargets(all, LAMBDA x : Bucket(x) = "mixed")]]]

(***************************************************************************)
(* Latency statistics                                                      *)
(***************************************************************************)
\* values.sort(): the value at place i is the one that i - 1 others precede,
\* equal values keeping their order
SortValues(values) ==
    LET n == Len(values)
        before(k, j) == values[k] < values[j] \/ (values[k] = values[j] /\ k < j)
        rank(j) == 1 + Cardinality({k \in 1..n : before(k, j)})
    IN  [i \in 1..n |-> values[CHOOSE j \in 1..n : rank(j) = i]]

ZeroLatency ==
    [avg_ms |-> 0, min_ms |-> 0, max_ms |-> 0, p50_ms |-> 0, p95_ms |-> 0, p99_ms |-> 0]

\* mutant: the values are not sorted
LatencyStatsUnsorted(values) ==
    LET n == Len(values)
    IN  [avg_ms |-> Round(SumSeq(values), n),
         min_ms |-> values[1],
         max_ms |-> values[n],
         p50_ms |-> values[(n \div 2) + 1],
         p95_ms |-> values[((n * 95) \div 100) + 1],
         p99_ms |-> values[((n * 99) \div 100) + 1]]

\* values is not empty; Python indexes from 0, int(n * 0.95) is floor(95 n / 100)
_compute_single_latency_stats(values) ==
    LET sorted == SortValues(values)
        n == Len(sorted)
    IN  [avg_ms |-> Round(SumSeq(sorted), n),
         min_ms |-> sorted[1],
         max_ms |-> sorted[n],
         p50_ms |-> sorted[(n \div 2) + 1],
         p95_ms |-> sorted[((n * 95) \div 100) + 1],
         p99_ms |-> sorted[((n * 99) \div 100) + 1]]

compute_latency_stats(timings) ==
    LET hasTotal(t) == Truthy(t) /\ Has(t, "total_ms") /\ t.total_ms # NullMs
        sel == SelectSeq(timings, hasTotal)
        totals == [j \in DOMAIN sel |-> sel[j].total_ms]
    IN  IF timings = <<>>
        THEN [total |-> ZeroLatency, socket |-> None, dns |-> None]
        ELSE [total |-> IF totals = <<>> THEN ZeroLatency
                        ELSE _compute_single_latency_stats(totals)]

(***************************************************************************)
(* aggregate_results                                                       *)
(***************************************************************************)
CanonicalOrder ==
    <<"exit_fingerprint", "exit_nickname", "exit_address", "status", "resolved_ip",
      "expected_ip", "query_domain", "first_hop", "timing", "timestamp", "attempt",
      "consecutive_failures", "error", "cv">>

\* mutant: every field of the record is kept
OrderAllFields(result) == result

\* the fields kept; OrderedKeys gives the order in which they are emitted
_order_result_fields(result) ==
    [k \in DOMAIN result \cap Range(CanonicalOrder) |-> result[k]]

OrderedKeys(result) == SelectSeq(CanonicalOrder, LAMBDA k : k \in DOMAIN result)

\* mutant: the first record of the previous report with the fingerprint is kept
PrevStateFirst(prev, fp) ==
    IF prev = NoReport THEN <<>>
    ELSE LET rs == Get(prev, "results", <<>>)
             hits == {i \in DOMAIN rs :
                        LET pfp == Get(rs[i], "exit_fingerprint", None)
                        IN  TruthyFp(pfp) /\ pfp = fp}
         IN  IF hits = {} THEN <<>>
             ELSE rs[CHOOSE i \in hits : \A j \in hits : i <= j]

\* lines 438-447: prev_state.get(fp, {}); a later record of the previous report
\* replaces an earlier one with the same fingerprint
PrevState(prev, fp) ==
    IF prev = NoReport THEN <<>>
    ELSE LET rs == Get(prev, "results", <<>>)
             hits == {i \in DOMAIN rs :
                        LET pfp == Get(rs[i], "exit_fingerprint", None)
                        IN  TruthyFp(pfp) /\ pfp = fp}
         IN  IF hits = {} THEN <<>>
             ELSE rs[CHOOSE i \in hits : \A j \in hits : j <= i]

\* mutant: the streak of the previous report continues after a success
ConsecutiveFailuresNoReset(r, prev) ==
    IF Get(r, "status", "unknown") = "success" THEN 0
    ELSE LET p == PrevState(prev, Get(r, "exit_fingerprint", None))
         IN  Get(p, "consecutive_failures", 0) + 1

\* lines 486-493
ConsecutiveFailures(r, prev) ==
    IF Get(r, "status", "unknown") = "success" THEN 0
    ELSE LET p == PrevState(prev, Get(r, "exit_fingerprint", None))
             prev_failures == IF Get(p, "status", None) # "success"
                              THEN Get(p, "consecutive_failures", 0) ELSE 0
         IN  prev_failures + 1

RECURSIVE AppendFailuresAll(_, _, _)
\* mutant: a circuit failure is appended whether or not its fingerprint is known
AppendFailuresAll(acc, cfs, i) ==
    IF i > Len(cfs) THEN acc
    ELSE LET cf == cfs[i]
             fp == Get(cf, "exit_fingerprint", None)
         IN  IF TruthyFp(fp)
             THEN AppendFailuresAll(
                    [results |-> Append(acc.results, cf),
                     origin |-> Append(acc.origin, "cf"),
                     seen |-> acc.seen \cup {fp},
                     added |-> Append(acc.added, i),
                     reasons |-> Append(acc.reasons,
                        _normalize_circuit_reason(
                            Get(cf, "circuit_reason", "circuit_failed")))],
                    cfs, i + 1)
             ELSE AppendFailuresAll(acc, cfs, i + 1)

RECURSIVE AppendFailuresCountAll(_, _, _)
\* mutant: the reason of a circuit failure is counted whether or not the
\* failure is appended
AppendFailuresCountAll(acc, cfs, i) ==
    IF i > Len(cfs) THEN acc
    ELSE LET cf == cfs[i]
             fp == Get(cf, "exit_fingerprint", None)
             counted == [acc EXCEPT !.reasons = Append(@,
                            _normalize_circuit_reason(
                                Get(cf, "circuit_reason", "circuit_failed")))]
         IN  IF TruthyFp(fp) /\ fp \notin acc.seen
             THEN AppendFailuresCountAll(
                    [counted EXCEPT !.results = Append(@, cf),
                                    !.origin = Append(@, "cf"),
                                    !.seen = @ \cup {fp},
                                    !.added = Append(@, i)],
                    cfs, i + 1)
             ELSE AppendFailuresCountAll(counted, cfs, i + 1)

RECURSIVE AppendFailures(_, _, _)
\* lines 454-465: acc is [results, origin, seen, added, reasons]; added lists the
\* indexes of the circuit failures appended, reasons their normalized keys
AppendFailures(acc, cfs, i) ==
    IF i > Len(cfs) THEN acc
    ELSE LET cf == cfs[i]
             fp == Get(cf, "exit_fingerprint", None)
         IN  IF TruthyFp(fp) /\ fp \notin acc.seen
             THEN AppendFailures(
                    [results |-> Append(acc.results, cf),
                     origin |-> Append(acc.origin, "cf"),
                     seen |-> acc.seen \cup {fp},
                     added |-> Append(acc.added, i),
                     reasons |-> Append(acc.reasons,
                        _normalize_circuit_reason(
                            Get(cf, "circuit_reason", "circuit_failed")))],
                    cfs, i + 1)
             ELSE AppendFailures(acc, cfs, i + 1)

\* mutant: a record without status is counted under no status
StatusCountNoDefault(rs, s) ==
    Cardinality({i \in DOMAIN rs : Get(rs[i], "status", None) = s})

\* stats[status], the Counter of line 482
StatusCount(rs, s) ==
    Cardinality({i \in DOMAIN rs : Get(rs[i], "status", "unknown") = s})

\* mutant: the unreachable targets are counted among the tested ones
TestedRelaysAll(total, unreachable_relays) == total

\* line 501
TestedRelays(total, unreachable_relays) == total - unreachable_relays

\* lines 518-519 and 558-559: round(part / whole * 100, 2) if whole else 0,
\* as a number of hundredths of a percent
RatePercent(part, whole) ==
    IF whole # 0 THEN Round(10000 * part, whole) ELSE 0

\* the result of aggregate_results and what it leaves in its argument lists
aggregate_results(rs, org, prev, cfs, scan_total) ==
    LET acc == AppendFailures(
                 [results |-> rs, origin |-> org,
                  seen |-> {Get(rs[i], "exit_fingerprint", None) : i \in DOMAIN rs},
                  added |-> <<>>, reasons |-> <<>>], cfs, 1)
        \* r["consecutive_failures"] = ... on every element of results
        marked == [i \in DOMAIN acc.results |->
                     Put(acc.results[i], "consecutive_failures",
                         ConsecutiveFailures(acc.results[i], prev))]
        isTimed(r) == /\ Get(r, "status", "unknown") = "success"
                      /\ Has(r, "timing") /\ Truthy(r.timing)
        timedRs == SelectSeq(marked, isTimed)
        timings == [j \in DOMAIN timedRs |-> timedRs[j].timing]
        total == Len(marked)
        unreachable_relays == StatusCount(marked, "relay_unreachable")
        tested_relays == TestedRelays(total, unreachable_relays)
        consensus_relays == IF scan_total > 0 THEN scan_total ELSE total
        metadata ==
            [consensus_relays |-> consensus_relays,
             tested_relays |-> tested_relays,
             unreachable_relays |-> unreachable_relays,
             dns_success |-> StatusCount(marked, "success"),
             dns_fail |-> StatusCount(marked, "dns_fail"),
             dns_timeout |-> StatusCount(marked, "timeout")
                             + StatusCount(marked, "hard_timeout"),
             dns_wrong_ip |-> StatusCount(marked, "wrong_ip"),
             dns_socks_error |-> StatusCount(marked, "socks_error"),
             dns_network_error |-> StatusCount(marked, "network_error")
                                   + StatusCount(marked, "tor_connection_refused")
                                   + StatusCount(marked, "tor_connection_lost")
                                   + StatusCount(marked, "eof_error"),
             dns_error |-> StatusCount(marked, "error"),
             dns_exception |-> StatusCount(marked, "exception"),
             dns_unknown |-> StatusCount(marked, "unknown"),
             circuit |-> [t \in Range(CIRCUIT_FAILURE_TYPES) |->
                            Cardinality({j \in DOMAIN acc.reasons : acc.reasons[j] = t})],
             dns_success_rate_percent |->
                RatePercent(StatusCount(marked, "success"), tested_relays),
             reachability_rate_percent |-> RatePercent(tested_relays, consensus_relays),
             timing |-> compute_latency_stats(timings)]
    IN  [report |-> [metadata |-> metadata,
                     results |-> [i \in DOMAIN marked |-> _order_result_fields(marked[i])],
                     \* the order in which the fields of each record are written
                     field_order |-> [i \in DOMAIN marked |-> OrderedKeys(marked[i])]],
         results |-> marked,
         origin |-> acc.origin,
         \* a circuit failure appended to results is the same dict in both lists
         circuit_failures |->
            [i \in DOMAIN cfs |->
               IF \E k \in DOMAIN acc.added : acc.added[k] = i
               THEN Put(cfs[i], "consecutive_failures",
                        ConsecutiveFailures(cfs[i], prev))
               ELSE cfs[i]]]

(***************************************************************************)
(* main                                                                    *)
(***************************************************************************)
RECURSIVE UniqueFailuresLast(_, _, _)
\* mutant: the last record of each fingerprint is kept
UniqueFailuresLast(cfs, seen_fps, unique_failures) ==
    IF cfs = <<>> THEN unique_failures
    ELSE LET cf == cfs[1]
             fp == Get(cf, "exit_fingerprint", None)
             later == {Get(Tail(cfs)[j], "exit_fingerprint", None) : j \in DOMAIN Tail(cfs)}
         IN  IF TruthyFp(fp) /\ fp \notin later
             THEN UniqueFailuresLast(Tail(cfs), seen_fps \cup {fp}, Append(unique_failures, cf))
             ELSE UniqueFailuresLast(Tail(cfs), seen_fps, unique_failures)

RECURSIVE UniqueFailures(_, _, _)
\* lines 727-735: the first record of each fingerprint, records without one dropped
UniqueFailures(cfs, seen_fps, unique_failures) ==
    IF cfs = <<>> THEN unique_failures
    ELSE LET cf == cfs[1]
             fp == Get(cf, "exit_fingerprint", None)
         IN  IF TruthyFp(fp) /\ fp \notin seen_fps
             THEN UniqueFailures(Tail(cfs), seen_fps \cup {fp}, Append(unique_failures, cf))
             ELSE UniqueFailures(Tail(cfs), seen_fps, unique_failures)

RECURSIVE MaxOf(_)
MaxOf(s) == IF s = <<>> THEN 0
            ELSE LET m == MaxOf(Tail(s)) IN IF s[1] > m THEN s[1] ELSE m

inputs == <<mode, source_dirs, files, cf_files, scan_files, previous>>

\* lines 696-714: cross-validation mode
CrossValidate ==
    /\ pc = "start"
    /\ mode = "cv"
    /\ IF \E i \in DOMAIN files : Raises(files[i])
       THEN \* line 227: the exception is not caught, the process ends
            /\ pc' = "crashed"
            /\ UNCHANGED <<all_results, results, origin, cv_stats, circuit_failures>>
       ELSE LET cv == cross_validate_results(source_dirs, files)
            IN  /\ all_results' = cv.all_results
                /\ results' = cv.merged
                /\ origin' = [i \in DOMAIN cv.merged |-> "doc"]
                /\ cv_stats' = cv.cv_stats
                /\ IF cv.merged = <<>>
                   THEN pc' = "exit1" /\ UNCHANGED circuit_failures
                   ELSE pc' = "loaded" /\ circuit_failures' = Concat(cf_files)
    /\ UNCHANGED <<inputs, report, history>>

\* lines 716-724: standard mode, load_results keeps every non-empty document
LoadStandard ==
    /\ pc = "start"
    /\ mode = "single"
    /\ LET loaded == load_results(files[1])
       IN  /\ results' = loaded
           /\ origin' = [i \in DOMAIN loaded |-> "doc"]
           /\ IF loaded = <<>>
              THEN pc' = "exit1" /\ UNCHANGED circuit_failures
              ELSE pc' = "loaded" /\ circuit_failures' = cf_files[1]
    /\ UNCHANGED <<inputs, all_results, cv_stats, report, history>>

\* lines 726-736
DeduplicateFailures ==
    /\ pc = "loaded"
    /\ pc' = "deduped"
    /\ circuit_failures' = IF circuit_failures # <<>>
                           THEN UniqueFailures(circuit_failures, {}, <<>>)
                           ELSE circuit_failures
    /\ UNCHANGED <<inputs, all_results, results, origin, cv_stats, report, history>>

\* lines 746-773: aggregate_results, the cross_validation block, the report written
Aggregate ==
    /\ pc = "deduped"
    /\ IF Raises(results)
       THEN \* line 451: the exception is not caught, no report is written
            /\ pc' = "crashed"
            /\ UNCHANGED <<results, origin, circuit_failures, report>>
       ELSE LET scan_total == IF mode = "cv" THEN MaxOf(scan_files) ELSE scan_files[1]
                out == aggregate_results(results, origin, previous, circuit_failures,
                                         scan_total)
            IN  /\ pc' = "done"
                /\ report' = IF cv_stats # NoStats
                             THEN [out.report EXCEPT !.metadata =
                                     Put(@, "cross_validation",
                                         [relays_improved |-> cv_stats.improved,
                                          recovered_from_timeout |->
                                             cv_stats.recovered_from_timeout,
                                          recovered_from_dns_fail |->
                                             cv_stats.recovered_from_dns_fail,
                                          recovered_from_error |->
                                             cv_stats.recovered_from_error,
                                          consistency |-> cv_stats.consistency])]
                             ELSE out.report
                /\ results' = out.results
                /\ origin' = out.origin
                /\ circuit_failures' = out.circuit_failures
    /\ UNCHANGED <<inputs, all_results, cv_stats, history>>

Next == CrossValidate \/ LoadStandard \/ DeduplicateFailures \/ Aggregate

(***************************************************************************)
(* Further runs of main, further calls of aggregate_results                *)
(***************************************************************************)
\* what a run leaves behind: its inputs and the report it wrote
ThisRun == [files |-> files, cf_files |-> cf_files, scan_files |-> scan_files,
            previous |-> previous, report |-> report]

\* json.dump (lines 767-769) then json.load (lines 441-442) of a report: the
\* objects, arrays, strings, integers and nulls of the results come back as
\* they were written; the order in which the fields were written is not a
\* value of the file
ReadBack(rep) == [metadata |-> rep.metadata, results |-> rep.results]

\* a process of main starts with nothing loaded
FreshProcess ==
    /\ pc' = "start"
    /\ all_results' = <<>>
    /\ results' = <<>>
    /\ origin' = <<>>
    /\ cv_stats' = NoStats
    /\ circuit_failures' = <<>>
    /\ report' = NoReport

\* mutant: the second run is given the report of the first as --previous
RunAgainWithPrevious ==
    /\ pc = "done"
    /\ history = <<>>
    /\ history' = Append(history, ThisRun)
    /\ previous' = ReadBack(report)
    /\ FreshProcess
    /\ UNCHANGED <<mode, source_dirs, files, cf_files, scan_files>>

\* main is run once more on the same batch, to another output file
RunAgain ==
    /\ pc = "done"
    /\ history = <<>>
    /\ history' = Append(history, ThisRun)
    /\ FreshProcess
    /\ UNCHANGED inputs

\* mutant: the first call was given a copy of the results list, so the second
\* call is given the list without the circuit failures appended
AggregateAgainOnCopy ==
    /\ pc = "done"
    /\ history = <<>>
    /\ previous = NoReport
    /\ LET scan_total == IF mode = "cv" THEN MaxOf(scan_files) ELSE scan_files[1]
           kept == {k \in DOMAIN results : origin[k] = "doc"}
           out == aggregate_results(SubSeq(results, 1, Cardinality(kept)),
                                    SubSeq(origin, 1, Cardinality(kept)),
                                    previous, circuit_failures, scan_total)
       IN  /\ pc' = "done"
           /\ history' = Append(history, ThisRun)
           /\ report' = out.report
           /\ results' = out.results
           /\ origin' = out.origin
           /\ circuit_failures' = out.circuit_failures
    /\ UNCHANGED <<inputs, all_results, cv_stats>>

\* aggregate_results is called a second time with the lists the first call
\* was given (no previous report)
AggregateAgain ==
    /\ pc = "done"
    /\ history = <<>>
    /\ previous = NoReport
    /\ LET scan_total == IF mode = "cv" THEN MaxOf(scan_files) ELSE scan_files[1]
           out == aggregate_results(results, origin, previous, circuit_failures,
                                    scan_total)
       IN  /\ pc' = "done"
           /\ history' = Append(history, ThisRun)
           /\ report' = out.report
           /\ results' = out.results
           /\ origin' = out.origin
           /\ circuit_failures' = out.circuit_failures
    /\ UNCHANGED <<inputs, all_results, cv_stats>>

(***************************************************************************)
(* Inputs                                                                  *)
(***************************************************************************)
\* r with key k set when present holds
Opt(r, present, k, v) == IF present THEN Put(r, k, v) ELSE r

Absent == [absent |-> TRUE]

\* a measurement document as a producer writes it; id tells the documents apart
Doc(fp, status, timing, id) ==
    Opt(Opt(Opt([timestamp |-> id, run_id |-> "r1"],
                fp # None, "exit_fingerprint", fp),
            status # None, "status", status),
        timing # Absent, "timing", timing)

Timings == {[dns_ms |-> 5]} \cup {[dns_ms |-> 5, total_ms |-> v] : v \in 0..MaxTotalMs}

AllStatuses ==
    {"success", "wrong_ip", "dns_fail", "socks_error", "network_error", "error",
     "timeout", "hard_timeout", "exception", "unknown", "relay_unreachable",
     "tor_connection_refused", "tor_connection_lost", "eof_error", None}

\* the timings tried with a status: every one with success, one with timeout
TimingsFor(s) ==
    IF s = "success" THEN Timings \cup {Absent}
    ELSE IF s = "timeout" THEN {Absent, [dns_ms |-> 5, total_ms |-> MaxTotalMs]}
    ELSE {Absent}

\* every status, each with the timings tried with it
WideChoices == UNION {{<<s, t>> : t \in TimingsFor(s)} : s \in AllStatuses}

Timed(v) == [dns_ms |-> 5, total_ms |-> v]

\* the documents one directory may hold for one fingerprint, or none;
\* choices is a set of <<status, timing>>
Cell(fp, choices, id) == {Absent} \cup {Doc(fp, c[1], c[2], id) : c \in choices}

\* the files of a directory: the documents present, in listing order
Pack(cells) == SelectSeq(cells, LAMBDA d : d # Absent)

Dir(name) == <<"analysis", "2026-01-17", "15-49-26", name>>

\* an entry of circuit_failures.json
CfRecord(fp, reason, id) ==
    Opt(Opt([status |-> "relay_unreachable", timestamp |-> id],
            fp # None, "exit_fingerprint", fp),
        reason # None, "circuit_reason", reason)

InitCommon ==
    /\ pc = "start"
    /\ all_results = <<>>
    /\ results = <<>>
    /\ origin = <<>>
    /\ cv_stats = NoStats
    /\ circuit_failures = <<>>
    /\ report = NoReport
    /\ history = <<>>

(***************************************************************************)
(* SpecCV: cross-validation of three instances.  cv1 and cv2 report F1     *)
(* with any status, cv3 and the reports of F2 are drawn from a few.        *)
(***************************************************************************)
InitCV ==
    /\ InitCommon
    /\ mode = "cv"
    /\ source_dirs = <<Dir("cv1"), Dir("cv2"), Dir("cv3")>>
    /\ \E a1 \in Cell("F1", WideChoices, 11), a2 \in Cell("F1", WideChoices, 21),
          a3 \in Cell("F1", {<<"success", Timed(MaxTotalMs)>>, <<"success", Absent>>,
                             <<"timeout", Timed(0)>>}, 31),
          b1 \in Cell("F2", {<<"success", Absent>>, <<"timeout", Absent>>}, 12),
          b2 \in Cell("F2", {<<"success", Absent>>}, 22) :
            files = <<Pack(<<a1, b1>>), Pack(<<a2, b2>>), Pack(<<a3>>)>>
    /\ cf_files = <<<<CfRecord("F3", "circuit_timeout", 15)>>,
                    <<CfRecord("F1", "channel_closed", 25),
                      CfRecord("F3", "circuit_timeout", 26)>>,
                    <<>>>>
    /\ scan_files = <<0, 0, 0>>
    /\ previous = NoReport

NextCV == CrossValidate \/ DeduplicateFailures \/ Aggregate

SpecCV == InitCV /\ [][NextCV]_vars

(***************************************************************************)
(* Spec: a run in either mode whose circuit failures vary: every reason    *)
(* the map lists, one it does not list, no reason, a repeated fingerprint, *)
(* the fingerprint of a measured target, no fingerprint.                   *)
(***************************************************************************)
\* the circuit_reason values tried: the listed ones, an unlisted one, none
AllReasons == DOMAIN CIRCUIT_REASON_MAP \cup {"unlisted_reason", None}

\* the entries one place of circuit_failures.json may hold, or none;
\* choices is a set of <<fingerprint, reason>>
CfCell(choices, id) == {Absent} \cup {CfRecord(c[1], c[2], id) : c \in choices}

FewFailures ==
    {<<"F3", "circuit_timeout">>, <<"F1", "channel_closed">>,
     <<None, "circuit_timeout">>, <<"F4", None>>}

\* a circuit-failure entry whose status is not relay_unreachable
OddFailure ==
    [exit_fingerprint |-> "F4", status |-> "timeout", circuit_reason |-> "io_error",
     timestamp |-> 16]

\* a document whose producer wrote "error": null
WithNullError(doc) == Put(doc, "error", None)

InitFilesCV ==
    /\ mode = "cv"
    /\ source_dirs = <<Dir("cv1"), Dir("cv2")>>
    /\ \E a1 \in Cell("F1", {<<"success", Timed(MaxTotalMs)>>, <<"success", Absent>>,
                              <<"success", [dns_ms |-> 5]>>,
                              <<"timeout", Timed(MaxTotalMs)>>}, 11) \ {Absent},
          a2 \in Cell("F1", {<<"success", Timed(0)>>, <<"dns_fail", Absent>>}, 21),
          b1 \in {Absent, WithNullError(Doc("F2", "timeout", Timed(0), 12))} :
            files = <<Pack(<<a1, b1>>), Pack(<<a2>>)>>
    /\ \E c1 \in CfCell({"F3"} \X AllReasons, 15), c2 \in CfCell(FewFailures, 16) \cup {OddFailure},
          c3 \in CfCell({<<"F3", "channel_closed">>}, 25) :
            cf_files = <<Pack(<<c1, c2>>), Pack(<<c3>>)>>
    /\ scan_files = <<0, 0>>

InitFilesSingle ==
    /\ mode = "single"
    /\ source_dirs = <<Dir("input")>>
    /\ \E a1 \in Cell("F1", {<<"success", Timed(MaxTotalMs)>>, <<"success", Absent>>,
                              <<"timeout", Timed(MaxTotalMs)>>}, 11),
          anon \in {Absent, WithNullError(Doc(None, "timeout", Absent, 13))},
          b1 \in Cell("F2", {<<"relay_unreachable", Absent>>}, 12)
                  \cup {Doc("F1", "success", Timed(0), 12)} :
            files = <<Pack(<<a1, anon, b1>>)>>
    /\ \E c1 \in CfCell({"F3"} \X AllReasons, 15), c2 \in CfCell(FewFailures, 16) \cup {OddFailure} :
            cf_files = <<Pack(<<c1, c2>>)>>
    /\ scan_files \in {<<0>>, <<3>>}

Init ==
    /\ InitCommon
    /\ InitFilesCV \/ InitFilesSingle
    /\ previous = NoReport

Spec == Init /\ [][Next]_vars

(***************************************************************************)
(* SpecStreak: a single-source run against a previous report               *)
(***************************************************************************)
\* a record of the previous report
PrevRecord(fp, status, counted, failures) ==
    Opt(Opt(Opt([timestamp |-> 0],
                fp # None, "exit_fingerprint", fp),
            status # None, "status", status),
        counted, "consecutive_failures", failures)

\* the previous reports tried: none, or up to three records, the third one
\* a second record of F1 or a record without fingerprint
PreviousReports ==
    {NoReport} \cup
    {[results |-> Pack(<<p1, p2, p3>>)] :
        p1 \in {Absent} \cup {PrevRecord("F1", s, c, n) :
                    s \in {"success", "timeout", None},
                    c \in BOOLEAN, n \in 0..MaxPrevFailures},
        p2 \in {Absent} \cup {PrevRecord("F3", "relay_unreachable", TRUE, n) :
                    n \in 0..MaxPrevFailures},
        p3 \in {Absent, PrevRecord("F1", "dns_fail", TRUE, MaxPrevFailures),
                PrevRecord(None, "timeout", TRUE, MaxPrevFailures)}}

InitStreak ==
    /\ InitCommon
    /\ mode = "single"
    /\ source_dirs = <<Dir("input")>>
    /\ \E a1 \in Cell("F1", {<<"success", Absent>>, <<"timeout", Absent>>,
                              <<"dns_fail", Absent>>, <<None, Absent>>}, 11),
          anon \in Cell(None, {<<"timeout", Absent>>}, 13) :
            files = <<Pack(<<a1, anon>>)>>
    /\ \E c1 \in CfCell({<<"F3", "circuit_timeout">>}, 15) :
            cf_files = <<Pack(<<c1>>)>>
    /\ scan_files = <<0>>
    /\ previous \in PreviousReports

NextStreak == LoadStandard \/ DeduplicateFailures \/ Aggregate

SpecStreak == InitStreak /\ [][NextStreak]_vars

(***************************************************************************)
(* SpecWave: cross-validation of the directories of one wave, or of the    *)
(* directories of a run without waves                                      *)
(***************************************************************************)
\* analysis_2026-01-24_23-24-00_cvN_wM, split at the underscores
WaveDir(cv, wave) == <<"analysis", "2026-01-24", "23-24-00", cv, wave>>

CvParts == {"cv1", "cv2", "cv3", "cv4"}

WaveParts == {"w1", "w2", "w3"}

\* the source directories tried: the four of a wave, two of a wave, or three
\* of a run without waves
SourceLists ==
    {<<WaveDir("cv1", w), WaveDir("cv2", w), WaveDir("cv3", w), WaveDir("cv4", w)>> :
        w \in WaveParts}
    \cup {<<WaveDir("cv1", "w1"), WaveDir("cv4", "w3")>>}
    \cup {<<Dir("cv1"), Dir("cv2"), Dir("cv3")>>}

InitWave ==
    /\ InitCommon
    /\ mode = "cv"
    /\ source_dirs \in SourceLists
    /\ \E docs \in [1..4 -> Cell("F1", {<<"success", Absent>>, <<"timeout", Absent>>,
                                        <<"dns_fail", Absent>>}, 11)] :
          files = [d \in DOMAIN source_dirs |-> Pack(<<docs[d]>>)]
    /\ cf_files = [d \in DOMAIN source_dirs |-> <<>>]
    /\ scan_files = [d \in DOMAIN source_dirs |-> 0]
    /\ previous = NoReport

SpecWave == InitWave /\ [][NextCV]_vars

(***************************************************************************)
(* SpecPriority: two instances report F1 with any two statuses             *)
(***************************************************************************)
InitPriority ==
    /\ InitCommon
    /\ mode = "cv"
    /\ source_dirs = <<Dir("cv1"), Dir("cv2")>>
    /\ \E a1 \in Cell("F1", AllStatuses \X {Absent}, 11),
          a2 \in Cell("F1", AllStatuses \X {Absent}, 21) :
            files = <<Pack(<<a1, Doc("F2", "success", Absent, 12)>>), Pack(<<a2>>)>>
    /\ cf_files = <<<<>>, <<>>>>
    /\ scan_files = <<0, 0>>
    /\ previous = NoReport

SpecPriority == InitPriority /\ [][NextCV]_vars

(***************************************************************************)
(* SpecLatency: a single-source run whose successes carry timing samples   *)
(***************************************************************************)
\* the samples tried: every short list of small values, the list of the
\* percentile example out of order, and long descending lists
SampleLists ==
    UNION {[1..n -> 0..MaxSampleMs] : n \in 0..MaxSamples}
    \cup {<<30, 10, 50, 20, 40>>}
    \cup {[i \in 1..n |-> n + 1 - i] : n \in {19, 20, 21, 99, 100, 101}}

InitLatency ==
    /\ InitCommon
    /\ mode = "single"
    /\ source_dirs = <<Dir("input")>>
    /\ \E samples \in SampleLists,
          slow \in Cell("F2", {<<"timeout", Timed(MaxSampleMs + 1)>>}, 201),
          bare \in Cell("F3", {<<"success", [dns_ms |-> 5]>>, <<"success", Absent>>}, 202) :
            files = <<Pack(<<slow, bare>>)
                      \o [j \in DOMAIN samples |-> Doc("F1", "success", Timed(samples[j]), j)]>>
    /\ cf_files = <<<<>>>>
    /\ scan_files = <<0>>
    /\ previous = NoReport

SpecLatency == InitLatency /\ [][NextStreak]_vars

(***************************************************************************)
(* SpecBatch: a run in either mode over directories that also hold         *)
(* documents without a target identity, files that cannot be parsed and    *)
(* documents that are not objects.                                         *)
(***************************************************************************)
\* the documents without exit_fingerprint one place may hold, or none
AnonCell(choices, id) == Cell(None, choices, id)

InitBatch ==
    /\ InitCommon
    /\ \E a1 \in Cell("F1", {<<"success", Timed(1)>>, <<"timeout", Absent>>}, 11),
          n1 \in AnonCell({<<"timeout", Absent>>, <<"success", Timed(MaxTotalMs)>>}, 12),
          u1 \in {Absent, Unreadable},
          x1 \in {Absent, NonObject},
          a2 \in Cell("F1", {<<"dns_fail", Absent>>}, 21),
          n2 \in AnonCell({<<"dns_fail", Absent>>}, 22),
          u2 \in {Absent, Unreadable} :
            \/ /\ mode = "cv"
               /\ source_dirs = <<Dir("cv1"), Dir("cv2")>>
               /\ files = <<Pack(<<u1, a1, n1, x1>>), Pack(<<a2, n2, u2>>)>>
               /\ cf_files = <<<<CfRecord("F3", "circuit_timeout", 15)>>, <<>>>>
               /\ scan_files = <<0, 0>>
            \/ /\ mode = "single"
               /\ source_dirs = <<Dir("input")>>
               /\ files = <<Pack(<<u1, a1, n1, x1, n2>>)>>
               /\ u2 = Absent
               /\ a2 = Absent
               /\ cf_files = <<<<CfRecord("F3", "circuit_timeout", 15)>>>>
               /\ scan_files = <<0>>
    /\ previous \in {NoReport,
                     [results |-> <<PrevRecord(None, "timeout", TRUE, MaxPrevFailures),
                                    PrevRecord("F1", "timeout", TRUE, 1)>>]}

SpecBatch == InitBatch /\ [][Next]_vars

(***************************************************************************)
(* SpecCategories: a single-source run whose two documents carry any       *)
(* status, one no category lists included                                  *)
(***************************************************************************)
\* a status no table of the program lists
UnlistedStatus == "partial"

InitCategories ==
    /\ InitCommon
    /\ mode = "single"
    /\ source_dirs = <<Dir("input")>>
    /\ \E a1 \in Cell("F1", (AllStatuses \cup {UnlistedStatus}) \X {Absent}, 11),
          a2 \in Cell("F2", (AllStatuses \cup {UnlistedStatus}) \X {Absent}, 12) :
            files = <<Pack(<<a1, a2, Doc("F4", "success", Timed(MaxTotalMs), 14)>>)>>
    /\ \E c1 \in CfCell({<<"F3", "circuit_timeout">>}, 15) :
            cf_files = <<Pack(<<c1, OddFailure>>)>>
    /\ scan_files \in {<<0>>, <<1>>, <<9>>}
    /\ previous = NoReport

SpecCategories == InitCategories /\ [][NextStreak]_vars

(***************************************************************************)
(* SpecChain: runs of main in a row, in either mode, each one given the    *)
(* report of the run before as --previous.  F1 is in every report: as a    *)
(* measured target, or as the circuit failure the batch always holds; F2   *)
(* times out in every run.                                                 *)
(***************************************************************************)
\* the documents a batch may hold
ChainBatches ==
    IF mode = "cv"
    THEN {<<Pack(<<a1, Doc("F2", "timeout", Absent, 13)>>), Pack(<<a2>>)>> :
            a1 \in Cell("F1", {<<"success", Timed(MaxTotalMs)>>, <<"timeout", Absent>>,
                               <<"dns_fail", Absent>>}, 11),
            a2 \in Cell("F1", {<<"timeout", Absent>>}, 21)}
    ELSE {<<Pack(<<a1, b1, Doc("F2", "timeout", Absent, 13)>>)>> :
            a1 \in Cell("F1", {<<"success", Timed(MaxTotalMs)>>, <<"timeout", Absent>>,
                               <<"dns_fail", Absent>>}, 11),
            b1 \in Cell("F1", {<<"success", Absent>>}, 12)}

\* mutant: the next run does not read the report of the run before
NextRunForgetful ==
    /\ pc = "done"
    /\ Len(history) < MaxRuns - 1
    /\ history' = Append(history, ThisRun)
    /\ previous' = NoReport
    /\ files' \in ChainBatches
    /\ FreshProcess
    /\ UNCHANGED <<mode, source_dirs, cf_files, scan_files>>

\* main is run on the next batch, with the report just
\* written as --previous
NextRun ==
    /\ pc = "done"
    /\ Len(history) < MaxRuns - 1
    /\ history' = Append(history, ThisRun)
    /\ previous' = ReadBack(report)
    /\ files' \in ChainBatches
    /\ FreshProcess
    /\ UNCHANGED <<mode, source_dirs, cf_files, scan_files>>

InitChain ==
    /\ InitCommon
    /\ \/ /\ mode = "cv"
          /\ source_dirs = <<Dir("cv1"), Dir("cv2")>>
          /\ cf_files = <<<<CfRecord("F1", "circuit_timeout", 15)>>,
                          <<CfRecord("F3", "channel_closed", 26)>>>>
          /\ scan_files = <<0, 0>>
       \/ /\ mode = "single"
          /\ source_dirs = <<Dir("input")>>
          /\ cf_files = <<<<CfRecord("F1", "circuit_timeout", 15),
                            CfRecord("F3", "channel_closed", 16)>>>>
          /\ scan_files = <<0>>
    /\ files \in ChainBatches
    /\ previous = NoReport

NextChain == Next \/ NextRun

SpecChain == InitChain /\ [][NextChain]_vars

(***************************************************************************)
(* SpecRerun: main run twice on one batch without previous report          *)
(***************************************************************************)
InitRerun == InitBatch /\ previous = NoReport

NextRerun == Next \/ RunAgain

SpecRerun == InitRerun /\ [][NextRerun]_vars

(***************************************************************************)
(* SpecRepeat: aggregate_results called twice with the same lists          *)
(***************************************************************************)
NextRepeat == NextStreak \/ AggregateAgain

SpecRepeat == InitCategories /\ [][NextRepeat]_vars

(***************************************************************************)
(* What the claims speak of, read off the inputs and the outputs           *)
(***************************************************************************)
\* the documents directory d holds for fingerprint fp
DocsFor(d, fp) ==
    {files[d][k] : k \in {x \in DOMAIN files[d] :
                            Get(files[d][x], "exit_fingerprint", None) = fp}}

\* the instances (source directories) that report fp
InstancesOf(fp) == {d \in DOMAIN files : DocsFor(d, fp) # {}}

\* the document of instance d for fp (the inputs hold at most one)
DocOf(d, fp) == CHOOSE doc \in DocsFor(d, fp) : TRUE

\* the status instance d reports for fp, None when the document has none
StatusOf(d, fp) == Get(DocOf(d, fp), "status", None)

Succeeded(fp) == {d \in InstancesOf(fp) : StatusOf(d, fp) = "success"}

\* the directories main reads
Directories == IF mode = "cv" THEN DOMAIN files ELSE {1}

\* the fingerprints of the measurement documents given to main
MeasuredFps ==
    {fp \in {Get(doc, "exit_fingerprint", None) :
                doc \in UNION {Range(files[d]) : d \in Directories}} : TruthyFp(fp)}

\* the fingerprints of the circuit-failure entries given to main
FailureFps ==
    {fp \in {Get(cf, "exit_fingerprint", None) :
                cf \in UNION {Range(cf_files[d]) : d \in Directories}} : TruthyFp(fp)}

\* cross_validate_results has returned a non-empty list
Merged == mode = "cv" /\ pc \in {"loaded", "deduped", "done"}

\* the places of results that hold the resolved record of fp
Resolved(fp) ==
    {k \in DOMAIN results :
        origin[k] = "doc" /\ Get(results[k], "exit_fingerprint", None) = fp}

(***************************************************************************)
(* Claims on cross_validate_results, checked under SpecCV                  *)
(***************************************************************************)
\* C1: a target for which at least one instance reports success is resolved
\* to a record of status success, in the merged list and in the report,
\* whatever the other instances report
C1_SuccessDominance ==
    Merged =>
        \A fp \in MeasuredFps :
            Succeeded(fp) # {} =>
                /\ Resolved(fp) # {}
                /\ \A k \in Resolved(fp) :
                      /\ Get(results[k], "status", None) = "success"
                      /\ pc = "done" =>
                            Get(report.results[k], "status", None) = "success"

\* C1 witness: a report in which a target with one success and two different
\* failures was resolved
C1_Witness ==
    /\ Merged /\ pc = "done"
    /\ \E fp \in MeasuredFps :
          /\ Cardinality(Succeeded(fp)) = 1
          /\ \E d, e \in InstancesOf(fp) \ Succeeded(fp) :
                StatusOf(d, fp) # StatusOf(e, fp)
          /\ \E k \in Resolved(fp) : Get(report.results[k], "status", None) = "success"

\* the order C2 states, best first; timeout and hard_timeout tie
ClaimOrder ==
    <<{"wrong_ip"}, {"dns_fail"}, {"socks_error"}, {"network_error"}, {"error"},
      {"timeout", "hard_timeout"}, {"exception"}, {"unknown"}>>

Listed == UNION Range(ClaimOrder)

ClaimRank(s) == CHOOSE i \in DOMAIN ClaimOrder : s \in ClaimOrder[i]

\* C2: when no instance reports success, no instance reports a status that
\* strictly outranks the resolved one in the stated order; a record without
\* status is ranked as unknown, and a resolved status outside the order
\* means that no instance reported a status of the order
C2_BestRankedFailure ==
    Merged =>
        \A fp \in MeasuredFps :
            Succeeded(fp) = {} =>
                /\ Resolved(fp) # {}
                /\ \A k \in Resolved(fp), d \in InstancesOf(fp) :
                      LET r == Get(results[k], "status", None)
                          s == StatusOf(d, fp)
                      IN  /\ (r \in Listed /\ s \in Listed) => ClaimRank(s) >= ClaimRank(r)
                          /\ (r = None /\ s \in Listed) => s = "unknown"
                          /\ (r \notin Listed /\ r # None) => s \notin Listed
                          /\ s \in {"wrong_ip", "dns_fail"} => r \in {"wrong_ip", "dns_fail"}

\* C2 witness: a definitive failure was chosen over a timeout reported by an
\* instance that comes first
C2_Witness ==
    /\ Merged
    /\ \E fp \in MeasuredFps :
          /\ Succeeded(fp) = {}
          /\ \E d, e \in InstancesOf(fp) :
                /\ d < e
                /\ StatusOf(d, fp) \in {"timeout", "socks_error", "network_error", "error"}
                /\ StatusOf(e, fp) = "dns_fail"
          /\ \E k \in Resolved(fp) : Get(results[k], "status", None) = "dns_fail"

\* C6: instances_total counts the instances that reported the target,
\* instances_success those that reported success, and improved holds exactly
\* when some but not all of them succeeded
C6_CvCounts ==
    Merged =>
        \A fp \in MeasuredFps : \A k \in Resolved(fp) :
            LET cv == results[k].cv
                n == Cardinality(InstancesOf(fp))
                ok == Cardinality(Succeeded(fp))
            IN  /\ cv.instances_total = n
                /\ cv.instances_success = ok
                /\ cv.improved <=> (0 < ok /\ ok < n)
                /\ (ok = n \/ ok = 0 \/ n = 1) => ~cv.improved

\* C6 witness: of three instances that reported a target, two succeeded
C6_Witness ==
    /\ Merged
    /\ \E fp \in MeasuredFps : \E k \in Resolved(fp) :
          /\ Cardinality(InstancesOf(fp)) = 3
          /\ Cardinality(Succeeded(fp)) = 2
          /\ results[k].cv.improved

\* the fingerprints of the records of a list
FpSeq(rs) == [k \in DOMAIN rs |-> Get(rs[k], "exit_fingerprint", None)]

\* C7: the report of a cross-validated run holds exactly one record for every
\* fingerprint observed in a measurement document or a circuit-failure entry,
\* and no fingerprint twice
C7_OneRecordPerTarget ==
    (mode = "cv" /\ pc = "done") =>
        LET fps == FpSeq(report.results)
        IN  /\ \A fp \in MeasuredFps \cup FailureFps :
                  Cardinality({k \in DOMAIN fps : fps[k] = fp}) = 1
            /\ \A k, l \in DOMAIN fps : fps[k] = fps[l] => k = l
            /\ Range(fps) = MeasuredFps \cup FailureFps

\* C7 witness: a report with a target measured by two instances, a target
\* that is also a circuit failure and a target that two circuit failures name
C7_Witness ==
    /\ mode = "cv" /\ pc = "done"
    /\ Cardinality(InstancesOf("F1")) >= 2
    /\ "F1" \in FailureFps
    /\ "F2" \in MeasuredFps
    /\ Len(report.results) = 3

\* the successful instances of fp whose document carries a total_ms
TimedSuccesses(fp) ==
    {d \in Succeeded(fp) :
        /\ Has(DocOf(d, fp), "timing")
        /\ Has(DocOf(d, fp).timing, "total_ms")}

RECURSIVE SumTotals(_, _)
SumTotals(ds, fp) ==
    IF ds = {} THEN 0
    ELSE LET d == CHOOSE x \in ds : TRUE
         IN  DocOf(d, fp).timing.total_ms + SumTotals(ds \ {d}, fp)

\* m is the quotient total / n rounded to a nearest integer
IsRoundedMean(m, total, n) == 2 * (n * m - total) <= n /\ 2 * (total - n * m) <= n

\* C8: when the resolved outcome is success, the timing of the resolved
\* record is {total_ms: m} alone, m the rounded mean of total_ms over every
\* instance that reported success with a total_ms and over no other instance
\* (stated for one successful instance as for several)
C8_AveragedTiming ==
    Merged =>
        \A fp \in MeasuredFps : \A k \in Resolved(fp) :
            TimedSuccesses(fp) # {} =>
                /\ Has(results[k], "timing")
                /\ DOMAIN results[k].timing = {"total_ms"}
                /\ IsRoundedMean(results[k].timing.total_ms,
                                 SumTotals(TimedSuccesses(fp), fp),
                                 Cardinality(TimedSuccesses(fp)))
                /\ pc = "done" => report.results[k].timing = results[k].timing

\* C8 witness: two instances succeeded with different timings, a third failed
\* with a timing, and the resolved timing is not the one of the chosen instance
C8_Witness ==
    /\ Merged /\ pc = "done"
    /\ \E fp \in MeasuredFps : \E k \in Resolved(fp) :
          /\ \E d, e \in TimedSuccesses(fp) :
                DocOf(d, fp).timing.total_ms # DocOf(e, fp).timing.total_ms
          /\ \E d \in InstancesOf(fp) \ Succeeded(fp) : Has(DocOf(d, fp), "timing")
          /\ \E d \in Succeeded(fp) :
                /\ _get_instance_name(source_dirs[d]) = results[k].cv.result_source
                /\ DocOf(d, fp).timing.total_ms # report.results[k].timing.total_ms

\* the instance results a success outranked: <<fp, d>> with fp a target that
\* has a success and d an instance whose status for fp is in ss
Outranked(ss) ==
    {p \in MeasuredFps \X DOMAIN files :
        /\ Succeeded(p[1]) # {}
        /\ p[2] \in InstancesOf(p[1]) \ Succeeded(p[1])
        /\ StatusOf(p[2], p[1]) \in ss}

TimeoutClass == {"timeout", "hard_timeout"}

DocIds == {doc.timestamp : doc \in UNION {Range(files[d]) : d \in Directories}}

\* the timestamps of the circuit-failure entries given to main
CfIds == {cf.timestamp : cf \in UNION {Range(cf_files[d]) : d \in Directories}}

\* the places of the report that hold a measurement record
MeasurementPlaces ==
    {k \in DOMAIN report.results : report.results[k].timestamp \in DocIds}

\* the places of the report that hold a circuit-failure record
FailurePlaces ==
    {k \in DOMAIN report.results : report.results[k].timestamp \in CfIds}

ReportFp(k) == Get(report.results[k], "exit_fingerprint", None)

\* C3: a fingerprint found both in the measurement documents and in the
\* circuit failures has a measurement record in the report and no
\* circuit-failure record
C3_InfrastructurePrecedence ==
    pc = "done" =>
        \A fp \in MeasuredFps \cap FailureFps :
            /\ \E k \in MeasurementPlaces : ReportFp(k) = fp
            /\ \A k \in FailurePlaces : ReportFp(k) # fp

\* C3 witness: F1 is measured and named by a circuit failure, and the report
\* holds the circuit failure of another target
C3_Witness ==
    /\ pc = "done"
    /\ "F1" \in MeasuredFps \cap FailureFps
    /\ \E k \in FailurePlaces : ReportFp(k) = "F3"
    /\ \E k \in MeasurementPlaces : ReportFp(k) = "F1"

\* C4: the 17 circuit_* counts of the metadata sum to the number of
\* circuit-failure records in the results of the report
C4_CategorySum ==
    pc = "done" =>
        SumSeq([i \in DOMAIN CIRCUIT_FAILURE_TYPES |->
                    report.metadata.circuit[CIRCUIT_FAILURE_TYPES[i]]])
          = Cardinality(FailurePlaces)

\* C4 witness: of the circuit failures given, one with an unlisted reason is
\* in the report and another one was dropped
C4_Witness ==
    /\ pc = "done"
    /\ \E k \in FailurePlaces :
          \E d \in Directories : \E cf \in Range(cf_files[d]) :
              /\ cf.timestamp = report.results[k].timestamp
              /\ Get(cf, "circuit_reason", None) = "unlisted_reason"
    /\ Cardinality(FailurePlaces) < Cardinality(CfIds)
    /\ report.metadata.circuit["circuit_failed"] >= 1

\* the records of the previous report that carry fingerprint fp
PriorPlaces(fp) ==
    IF previous = NoReport THEN {}
    ELSE {i \in DOMAIN previous.results :
            /\ Has(previous.results[i], "exit_fingerprint")
            /\ previous.results[i].exit_fingerprint = fp}

\* the count a failure of fp adds one to; of several previous records of fp
\* the last one is the prior record
PriorCount(fp) ==
    IF PriorPlaces(fp) = {} THEN 0
    ELSE LET p == previous.results[CHOOSE i \in PriorPlaces(fp) :
                                        \A j \in PriorPlaces(fp) : j <= i]
         IN  IF Get(p, "status", None) = "success" THEN 0
             ELSE Get(p, "consecutive_failures", 0)

\* C5: consecutive_failures of a record of the report is 0 when its status is
\* success, and otherwise one more than the prior count: the count of the
\* previous report's record of the same fingerprint unless that record was a
\* success, 0 without such a record or without a previous report
C5_ConsecutiveFailures ==
    pc = "done" =>
        \A k \in DOMAIN report.results :
            /\ Has(report.results[k], "consecutive_failures")
            /\ report.results[k].consecutive_failures =
                  IF Get(report.results[k], "status", None) = "success" THEN 0
                  ELSE 1 + PriorCount(ReportFp(k))

\* C5 witness: F1 timed out after a previous timeout with the largest count
\* while F3, a success-free circuit failure, is new to the report
C5_Witness ==
    /\ pc = "done"
    /\ \E k \in DOMAIN report.results :
          /\ ReportFp(k) = "F1"
          /\ Get(report.results[k], "status", None) = "timeout"
          /\ Cardinality(PriorPlaces("F1")) = 1
          /\ PriorCount("F1") = MaxPrevFailures
          /\ report.results[k].consecutive_failures = MaxPrevFailures + 1
    /\ \E k \in FailurePlaces :
          /\ PriorPlaces(ReportFp(k)) = {}
          /\ report.results[k].consecutive_failures = 1

EngineFields == {"consecutive_failures", "cv"}

\* the document of the instance chosen for place k of the report
Chosen(k) ==
    IF mode = "cv"
    THEN LET fp == ReportFp(k)
             d == CHOOSE x \in InstancesOf(fp) :
                    _get_instance_name(source_dirs[x]) = report.results[k].cv.result_source
         IN  DocOf(d, fp)
    ELSE SelectSeq(files[1], Truthy)[k]

\* every field of rec among fields is a field of doc with the same value
KeptFrom(rec, doc, fields) == \A f \in fields : Has(doc, f) /\ rec[f] = doc[f]

\* C10 as stated: every emitted field of a measurement record but
\* consecutive_failures and cv, timing included, has the value of the chosen
\* instance's document
C10_ProducerFieldsKept ==
    pc = "done" =>
        \A k \in MeasurementPlaces :
            KeptFrom(report.results[k], Chosen(k),
                     DOMAIN report.results[k] \ EngineFields)

\* C10 amended: every emitted field of a measurement record but
\* consecutive_failures, cv and timing has the value of the chosen instance's
\* document; timing has it too in a single-source run and for a target no
\* successful instance of which carries a timing, and otherwise is replaced by
\* an object that holds total_ms alone
C10_FrameExceptTiming ==
    pc = "done" =>
        \A k \in MeasurementPlaces :
            LET rec == report.results[k]
                doc == Chosen(k)
                fp == ReportFp(k)
            IN  /\ KeptFrom(rec, doc, DOMAIN rec \ (EngineFields \cup {"timing"}))
                /\ IF mode = "cv" /\ \E d \in Succeeded(fp) : Has(DocOf(d, fp), "timing")
                   THEN Has(rec, "timing") /\ DOMAIN rec.timing = {"total_ms"}
                   ELSE /\ Has(rec, "timing") <=> Has(doc, "timing")
                        /\ Has(rec, "timing") => rec.timing = doc.timing

\* C10 witness: a cross-validated record whose timing is not the timing of the
\* chosen document, and one whose timing the chosen document does not have
C10_Witness ==
    /\ pc = "done" /\ mode = "cv"
    /\ \E k \in MeasurementPlaces :
          /\ Has(report.results[k], "timing")
          /\ \/ ~Has(Chosen(k), "timing")
             \/ Chosen(k).timing # report.results[k].timing
    /\ \E k \in MeasurementPlaces :
          /\ Has(report.results[k], "timing") /\ Has(Chosen(k), "timing")
          /\ report.results[k].timing = Chosen(k).timing

(***************************************************************************)
(* Claims on instance names, checked under SpecWave                        *)
(***************************************************************************)
\* the label the claim gives a directory, split at the underscores: cvN, wM
\* for a basename that ends in _cvN_wM, and the last part otherwise
ClaimedLabel(source_dir) ==
    LET n == Len(source_dir)
    IN  IF n >= 2 /\ source_dir[n] \in WaveParts /\ source_dir[n - 1] \in CvParts
        THEN <<source_dir[n - 1], source_dir[n]>>
        ELSE <<source_dir[n]>>

\* C11: the instance name of a directory is cvN for a basename ending in _cvN
\* and cvN_wM for a basename ending in _cvN_wM, so that the directories of
\* one wave receive pairwise distinct instance names
C11_InstanceNames ==
    Merged =>
        /\ \A d \in DOMAIN source_dirs :
              <<cv_stats.instance_names[d]>> = ClaimedLabel(source_dirs[d])
        /\ \A d, e \in DOMAIN source_dirs :
              cv_stats.instance_names[d] = cv_stats.instance_names[e] => d = e

(***************************************************************************)
(* Claims on the totals of the report, checked under Spec                  *)
(***************************************************************************)
\* the sum of the 17 circuit_* counts of the metadata
CircuitSum ==
    SumSeq([i \in DOMAIN CIRCUIT_FAILURE_TYPES |->
                report.metadata.circuit[CIRCUIT_FAILURE_TYPES[i]]])

\* the places among ks whose record has status s
WithStatus(ks, s) == {k \in ks : Get(report.results[k], "status", None) = s}

Categories == DOMAIN CROSS_VALIDATION_RESULT_PRIORITY

\* the rank the resolver sorts a record of status s by
Rank(s) == PriorityKey([status |-> s])

\* s strictly outranks t
Outranks(s, t) == Rank(s) < Rank(t)

\* C13: two distinct categories of the priority table have different ranks
\* unless they are timeout and hard_timeout, which have the same rank;
\* success has the single best rank; 'strictly outranks' is transitive and
\* has no cycles; and the record the resolver chose is outranked by no
\* instance's record
C13_PriorityTotality ==
    /\ \A s, t \in Categories :
          (s # t /\ {s, t} # TimeoutClass) => (Outranks(s, t) \/ Outranks(t, s))
    /\ Rank("timeout") = Rank("hard_timeout")
    /\ \A s \in Categories \ {"success"} : Outranks("success", s)
    /\ \A s, t, u \in Categories : (Outranks(s, t) /\ Outranks(t, u)) => Outranks(s, u)
    /\ \A s, t \in Categories : ~(Outranks(s, t) /\ Outranks(t, s))
    /\ Merged =>
          \A fp \in MeasuredFps : \A k \in Resolved(fp) : \A d \in InstancesOf(fp) :
              ~(PriorityKey(DocOf(d, fp)) < PriorityKey(results[k]))

\* C13 witness: a hard_timeout and a timeout of one target tied and the first
\* of them was chosen, next to a target resolved to success
C13_Witness ==
    /\ Merged
    /\ InstancesOf("F1") = {1, 2}
    /\ StatusOf(1, "F1") = "hard_timeout"
    /\ StatusOf(2, "F1") = "timeout"
    /\ \E k \in Resolved("F1") : results[k].status = "hard_timeout"
    /\ \E k \in Resolved("F2") : results[k].status = "success"

(***************************************************************************)
(* Claims on the circuit failures, checked under Spec                      *)
(***************************************************************************)
\* the circuit failures of all sources in load order
LoadedFailures == IF mode = "cv" THEN Concat(cf_files) ELSE cf_files[1]

\* the places of LoadedFailures that name fp
Occurrences(fp) ==
    {i \in DOMAIN LoadedFailures :
        Get(LoadedFailures[i], "exit_fingerprint", None) = fp}

\* the earliest circuit failure that names fp
Earliest(fp) ==
    LoadedFailures[CHOOSE i \in Occurrences(fp) : \A j \in Occurrences(fp) : i <= j]

\* C14: of the circuit failures that share a fingerprint exactly one is left
\* after deduplication, the first in load order; the record of the report for
\* a fingerprint that was not measured is that first one, and the circuit_*
\* counts are the counts of the reasons of the first ones
C14_FirstOccurrenceKept ==
    /\ pc \in {"deduped", "done"} =>
          \A fp \in FailureFps :
              /\ Cardinality({i \in DOMAIN circuit_failures :
                    Get(circuit_failures[i], "exit_fingerprint", None) = fp}) = 1
              /\ \A i \in DOMAIN circuit_failures :
                    Get(circuit_failures[i], "exit_fingerprint", None) = fp
                        => circuit_failures[i].timestamp = Earliest(fp).timestamp
    /\ pc = "done" =>
          /\ \A fp \in FailureFps \ MeasuredFps :
                /\ Cardinality({k \in FailurePlaces : ReportFp(k) = fp}) = 1
                /\ \A k \in FailurePlaces :
                      ReportFp(k) = fp =>
                          /\ report.results[k].timestamp = Earliest(fp).timestamp
                          /\ KeptFrom(report.results[k], Earliest(fp),
                                      DOMAIN report.results[k] \ EngineFields)
          /\ \A t \in Range(CIRCUIT_FAILURE_TYPES) :
                report.metadata.circuit[t] =
                    Cardinality({fp \in FailureFps \ MeasuredFps :
                        _normalize_circuit_reason(
                            Get(Earliest(fp), "circuit_reason", "circuit_failed")) = t})

\* C14 witness: three circuit failures from two sources name F3 with
\* different reasons, and the report counts the reason of the first
C14_Witness ==
    /\ pc = "done" /\ mode = "cv"
    /\ Cardinality(Occurrences("F3")) = 3
    /\ Get(Earliest("F3"), "circuit_reason", None) = "io_error"
    /\ report.metadata.circuit["circuit_io_error"] = 1
    /\ report.metadata.circuit["circuit_timeout"] = 0
    /\ report.metadata.circuit["circuit_channel_closed"] = 0

(***************************************************************************)
(* Claims on the timing statistics, checked under SpecLatency              *)
(***************************************************************************)
\* the timing samples of a single-source run: total_ms of the successful
\* documents that carry one, in load order
Samples ==
    LET sampled(doc) == /\ Get(doc, "status", None) = "success"
                        /\ Has(doc, "timing") /\ Has(doc.timing, "total_ms")
        sel == SelectSeq(files[1], sampled)
    IN  [j \in DOMAIN sel |-> sel[j].timing.total_ms]

\* x is the element at 0-based index k of the samples sorted ascending
IsOrderStatistic(x, k) ==
    /\ Cardinality({j \in DOMAIN Samples : Samples[j] < x}) <= k
    /\ k < Cardinality({j \in DOMAIN Samples : Samples[j] <= x})

\* floor(n * percent / 100) clamped to n - 1
NearestRank(n, percent) ==
    IF (n * percent) \div 100 > n - 1 THEN n - 1 ELSE (n * percent) \div 100

\* C15: for n > 0 samples min_ms is the smallest and max_ms the largest
\* sample, avg_ms the mean rounded to a nearest integer, p50, p95 and p99
\* the sample at 0-based index floor(n p) of the ascending order, an index
\* that never needs the clamp to n - 1; the samples 10, 20, 30, 40, 50 give
\* p50 30, p95 50, p99 50, min 10, max 50, avg 30
C15_LatencyStats ==
    (pc = "done" /\ Samples # <<>>) =>
        LET st == report.metadata.timing.total
            n == Len(Samples)
        IN  /\ st.min_ms \in Range(Samples) /\ \A x \in Range(Samples) : st.min_ms <= x
            /\ st.max_ms \in Range(Samples) /\ \A x \in Range(Samples) : x <= st.max_ms
            /\ IsRoundedMean(st.avg_ms, SumSeq(Samples), n)
            /\ IsOrderStatistic(st.p50_ms, NearestRank(n, 50))
            /\ IsOrderStatistic(st.p95_ms, NearestRank(n, 95))
            /\ IsOrderStatistic(st.p99_ms, NearestRank(n, 99))
            /\ (n * 99) \div 100 <= n - 1
            /\ Range(Samples) = {10, 20, 30, 40, 50} =>
                  st = [avg_ms |-> 30, min_ms |-> 10, max_ms |-> 50,
                        p50_ms |-> 30, p95_ms |-> 50, p99_ms |-> 50]

\* C15 witness: 101 samples loaded in descending order, of which the three
\* percentiles and the two extremes are five different ones
C15_Witness ==
    /\ pc = "done"
    /\ Len(Samples) = 101
    /\ Samples[1] > Samples[101]
    /\ LET st == report.metadata.timing.total
       IN  /\ st.min_ms < st.p50_ms /\ st.p50_ms < st.p95_ms
           /\ st.p95_ms < st.p99_ms /\ st.p99_ms < st.max_ms

\* rate is part / whole as a percentage in hundredths, rounded to a nearest one
IsRate(rate, part, whole) == IsRoundedMean(rate, 10000 * part, whole)

\* the total_circuits main hands to aggregate_results
ScanTotal == IF mode = "cv" THEN MaxOf(scan_files) ELSE scan_files[1]

\* C16: tested_relays is the number of records of the report less
\* unreachable_relays; dns_success_rate_percent is dns_success over
\* tested_relays and reachability_rate_percent is tested_relays over
\* consensus_relays, the scanned total when there is one and the number of
\* records otherwise; a rate whose denominator is 0 is 0
C16_TotalsAndRates ==
    pc = "done" =>
        LET md == report.metadata
            total == Len(report.results)
        IN  /\ md.unreachable_relays =
                  Cardinality(WithStatus(DOMAIN report.results, "relay_unreachable"))
            /\ md.tested_relays = total - md.unreachable_relays
            /\ md.dns_success = Cardinality(WithStatus(DOMAIN report.results, "success"))
            /\ md.consensus_relays = IF ScanTotal > 0 THEN ScanTotal ELSE total
            /\ IF md.tested_relays = 0 THEN md.dns_success_rate_percent = 0
               ELSE IsRate(md.dns_success_rate_percent, md.dns_success, md.tested_relays)
            /\ IF md.consensus_relays = 0 THEN md.reachability_rate_percent = 0
               ELSE IsRate(md.reachability_rate_percent, md.tested_relays,
                           md.consensus_relays)

\* C16 witness: of three targets scanned, one succeeded, one failed and one
\* was unreachable: the success rate is 50 percent, the reachability rate
\* 66.67 percent
C16_Witness ==
    /\ pc = "done"
    /\ ScanTotal = 3
    /\ Len(report.results) = 3
    /\ report.metadata.unreachable_relays = 1
    /\ report.metadata.dns_success = 1
    /\ report.metadata.dns_success_rate_percent = 5000
    /\ report.metadata.reachability_rate_percent = 6667

\* C16 second case, a zero denominator: every record of the report is
\* unreachable and the success rate is 0
C16_ZeroDenominator ==
    /\ pc = "done"
    /\ report.metadata.tested_relays = 0
    /\ report.metadata.dns_success_rate_percent = 0
    /\ report.metadata.reachability_rate_percent = 0

\* the circuit failure given to main that place k of the report holds
SourceFailure(k) ==
    CHOOSE cf \in Range(LoadedFailures) : cf.timestamp = report.results[k].timestamp

\* the circuit_* key the claim gives a raw reason; a missing reason is None
ClaimedKey(reason) ==
    IF reason \in DOMAIN CIRCUIT_REASON_MAP THEN CIRCUIT_REASON_MAP[reason]
    ELSE "circuit_failed"

\* C17: a reason of the lookup table is counted under its table entry and
\* any other reason, a missing one included, under circuit_failed; the key
\* is always one of the 17 of CIRCUIT_FAILURE_TYPES
C17_ReasonNormalized ==
    /\ \A r \in AllReasons : _normalize_circuit_reason(r) \in Range(CIRCUIT_FAILURE_TYPES)
    /\ pc = "done" =>
          /\ DOMAIN report.metadata.circuit = Range(CIRCUIT_FAILURE_TYPES)
          /\ \A t \in Range(CIRCUIT_FAILURE_TYPES) :
                report.metadata.circuit[t] =
                    Cardinality({k \in FailurePlaces :
                        ClaimedKey(Get(SourceFailure(k), "circuit_reason", None)) = t})

\* C17 witness: a report that holds a circuit failure with an unlisted reason
\* and one without a reason, both counted as circuit_failed
C17_Witness ==
    /\ pc = "done"
    /\ \E k, l \in FailurePlaces :
          /\ Get(SourceFailure(k), "circuit_reason", None) = "unlisted_reason"
          /\ ~Has(SourceFailure(l), "circuit_reason")
    /\ report.metadata.circuit["circuit_failed"] = 2
    /\ CircuitSum = 2

(***************************************************************************)
(* Claims on the records of the report, checked under Spec                 *)
(***************************************************************************)
\* the place of field f in the canonical order
CanonicalPlace(f) == CHOOSE i \in DOMAIN CanonicalOrder : CanonicalOrder[i] = f

\* the fields whose value is a string or null
StringFields ==
    {"exit_fingerprint", "exit_nickname", "exit_address", "status", "resolved_ip",
     "expected_ip", "query_domain", "first_hop", "error"}

\* the input record that place k of the report was made from
SourceRecord(k) == IF k \in MeasurementPlaces THEN Chosen(k) ELSE SourceFailure(k)

\* the record at place k holds canonical fields only, written in canonical order
InCanonicalOrder(k) ==
    LET rec == report.results[k]
        order == report.field_order[k]
    IN  /\ DOMAIN rec \subseteq Range(CanonicalOrder)
        /\ Range(order) = DOMAIN rec
        /\ \A i, j \in DOMAIN order :
              i < j => CanonicalPlace(order[i]) < CanonicalPlace(order[j])

\* the record at place k holds a null, as a field or as total_ms of timing
HoldsNull(k) ==
    LET rec == report.results[k]
    IN  \/ \E f \in DOMAIN rec \cap StringFields : rec[f] = None
        \/ /\ Has(rec, "timing") /\ Has(rec.timing, "total_ms")
           /\ rec.timing.total_ms = NullMs

\* C18 as stated: canonical fields in canonical order, a field without value
\* on the source record omitted, and no null emitted
C18_NoNullEmitted ==
    pc = "done" =>
        \A k \in DOMAIN report.results :
            /\ InCanonicalOrder(k)
            /\ (DOMAIN report.results[k] \ (EngineFields \cup {"timing"}))
                  \subseteq DOMAIN SourceRecord(k)
            /\ ~HoldsNull(k)

\* C18 amended: canonical fields in canonical order; but for the engine's
\* consecutive_failures, cv and timing, a field is emitted exactly when the
\* source record has it, with null when the source record holds null; and
\* timing.total_ms is null only for a cross-validated target whose successful
\* instances carry timings without total_ms
C18_CanonicalFields ==
    pc = "done" =>
        \A k \in DOMAIN report.results :
            LET rec == report.results[k]
                src == SourceRecord(k)
                own == EngineFields \cup {"timing"}
            IN  /\ InCanonicalOrder(k)
                /\ DOMAIN rec \ own = (DOMAIN src \cap Range(CanonicalOrder)) \ own
                /\ \A f \in (DOMAIN rec \cap StringFields) \ own :
                      (rec[f] = None) <=> (src[f] = None)
                /\ (Has(rec, "timing") /\ Has(rec.timing, "total_ms")
                        /\ rec.timing.total_ms = NullMs) =>
                      /\ mode = "cv" /\ k \in MeasurementPlaces
                      /\ TimedSuccesses(ReportFp(k)) = {}
                      /\ \E d \in Succeeded(ReportFp(k)) :
                            Has(DocOf(d, ReportFp(k)), "timing")

\* C18 witness: a report with a record whose error is null as on its source
\* document and a record whose timing.total_ms is null
C18_Witness ==
    /\ pc = "done"
    /\ \E k \in DOMAIN report.results :
          Has(report.results[k], "error") /\ report.results[k].error = None
    /\ \E k \in DOMAIN report.results :
          /\ Has(report.results[k], "timing")
          /\ report.results[k].timing = [total_ms |-> NullMs]
    /\ FailurePlaces # {}

(***************************************************************************)
(* C19: documents without a target identity                                *)
(***************************************************************************)
\* the valid measurement documents given to main that lack a target identity
Anonymous ==
    {doc \in UNION {Range(files[d]) : d \in Directories} :
        /\ doc # Unreadable
        /\ doc # NonObject
        /\ Truthy(doc)
        /\ ~TruthyFp(Get(doc, "exit_fingerprint", None))}

\* the metadata count of the category of status s
CategoryCount(s) ==
    IF s = "success" THEN report.metadata.dns_success
    ELSE IF s = "timeout" THEN report.metadata.dns_timeout
    ELSE report.metadata.dns_fail

\* C19: in either mode every valid document without a target identity has a
\* record of its own in the report, counted in tested_relays and in the count
\* of its category, carrying no reconciliation detail and a streak that
\* ignores the previous report
C19_AnonymousCounted ==
    pc = "done" =>
        /\ \A doc \in Anonymous :
              \E k \in DOMAIN report.results :
                  /\ report.results[k].timestamp = doc.timestamp
                  /\ report.results[k].status = doc.status
                  /\ ~Has(report.results[k], "cv")
                  /\ report.results[k].consecutive_failures =
                        IF doc.status = "success" THEN 0 ELSE 1
        /\ report.metadata.tested_relays >= Cardinality(Anonymous)
        /\ \A s \in {"success", "timeout", "dns_fail"} :
              CategoryCount(s) >= Cardinality({doc \in Anonymous : doc.status = s})

\* the same statement of the single-source runs only
C19_AnonymousCountedSingle == mode = "single" => C19_AnonymousCounted

\* a single-source report written over a document without target identity
\* while the previous report holds a failing record without fingerprint
C19_SingleCase ==
    /\ pc = "done"
    /\ mode = "single"
    /\ previous # NoReport
    /\ \E doc \in Anonymous : doc.status = "timeout"

(***************************************************************************)
(* C20: what ends a run without a report                                   *)
(***************************************************************************)
\* every file given to main
GivenFiles == UNION {Range(files[d]) : d \in Directories}

\* the valid measurement documents among them: parsed, objects, not empty
ValidDocuments ==
    {doc \in GivenFiles : doc # Unreadable /\ doc # NonObject /\ Truthy(doc)}

\* main has ended
Ended == pc \in {"done", "exit1", "crashed"}

\* the exit status of the process: return 0, return 1 or, after an uncaught
\* exception, the interpreter's status 1
ExitCode == IF pc = "done" THEN 0 ELSE 1

\* C20: a run given at least one valid measurement document ends with a
\* report written and exit code 0 whatever its other files hold, and a run
\* given none ends without report and with exit code 1
C20_OnlyFatalPrecondition ==
    Ended =>
        IF ValidDocuments # {}
        THEN report # NoReport /\ ExitCode = 0
        ELSE report = NoReport /\ ExitCode = 1

\* the same statement of the runs whose files are unreadable or valid
\* documents only and, in cross-validation, with a fingerprint in one of them
C20_UnreadableSkipped ==
    (/\ NonObject \notin GivenFiles
     /\ mode = "cv" => ValidDocuments \ Anonymous # {} \/ ValidDocuments = {})
        => C20_OnlyFatalPrecondition

\* a report written although a file of the directory could not be parsed
C20_SkippedCase ==
    /\ pc = "done"
    /\ Unreadable \in GivenFiles
    /\ report # NoReport

\* a run ended by the exception a document that is not an object raises, a
\* valid measurement document being among the files
C20_CrashCase == pc = "crashed" /\ ValidDocuments # {}

\* a cross-validation run ended with exit code 1 whose valid documents all
\* lack a fingerprint
C20_AnonymousOnlyCase ==
    pc = "exit1" /\ mode = "cv" /\ ValidDocuments # {}

(***************************************************************************)
(* C24: the tie-break of the resolver, checked under SpecCV                *)
(***************************************************************************)
\* the instances whose record of fp no other instance's record outranks
BestRanked(fp) ==
    {d \in InstancesOf(fp) :
        \A e \in InstancesOf(fp) :
            PriorityKey(DocOf(d, fp)) <= PriorityKey(DocOf(e, fp))}

\* the one of them that comes first in the source list
FirstBest(fp) == CHOOSE d \in BestRanked(fp) : \A e \in BestRanked(fp) : d <= e

\* C24: the resolved record and cv.result_source of a target are those of the
\* first instance, in the order of the source list, among the instances of
\* best rank; and cv.result_source names an instance that reported the target
\* with exactly the resolved status
C24_TieBreak ==
    Merged =>
        \A fp \in MeasuredFps : \A k \in Resolved(fp) :
            /\ results[k].cv.result_source = _get_instance_name(source_dirs[FirstBest(fp)])
            /\ results[k].timestamp = DocOf(FirstBest(fp), fp).timestamp
            /\ Get(results[k], "status", None) = StatusOf(FirstBest(fp), fp)
            /\ \E d \in InstancesOf(fp) :
                  /\ _get_instance_name(source_dirs[d]) = results[k].cv.result_source
                  /\ StatusOf(d, fp) = Get(results[k], "status", None)

\* C24 witness: the second and the third instance report hard_timeout and
\* timeout, the first one a status of worse rank, and the second one's record
\* was chosen
C24_Witness ==
    /\ Merged
    /\ InstancesOf("F1") = {1, 2, 3}
    /\ StatusOf(1, "F1") = "exception"
    /\ StatusOf(2, "F1") = "hard_timeout"
    /\ StatusOf(3, "F1") = "timeout"
    /\ \E k \in Resolved("F1") :
          /\ results[k].cv.result_source = "cv2"
          /\ results[k].status = "hard_timeout"

(***************************************************************************)
(* C25: exception and unknown rank worst, checked under SpecPriority       *)
(***************************************************************************)
\* the statuses the report counts as network errors (lines 549-552)
NetworkErrorStatuses ==
    {"network_error", "tor_connection_refused", "tor_connection_lost", "eof_error"}

\* the statuses of the tested outcome categories the report counts, but
\* exception and unknown
CountedOutcomes ==
    {"success", "dns_fail", "timeout", "hard_timeout", "wrong_ip", "socks_error", "error"}
        \cup NetworkErrorStatuses

\* exception, unknown, or no status at all
WorstOutcomes == {"exception", "unknown", None}

\* C25: a target for which an instance reports a counted outcome other than
\* exception and unknown is not resolved to exception, unknown or a record
\* without status
C25_WorstRankedLast ==
    Merged =>
        \A fp \in MeasuredFps : \A k \in Resolved(fp) :
            (\E d \in InstancesOf(fp) : StatusOf(d, fp) \in CountedOutcomes)
                => Get(results[k], "status", None) \notin WorstOutcomes

\* the same statement of the outcomes the priority table lists
C25_ListedOutcomesFirst ==
    Merged =>
        \A fp \in MeasuredFps : \A k \in Resolved(fp) :
            (\E d \in InstancesOf(fp) :
                StatusOf(d, fp) \in CountedOutcomes \cap DOMAIN CROSS_VALIDATION_RESULT_PRIORITY)
                => Get(results[k], "status", None) \notin WorstOutcomes

\* a target resolved to exception although an instance reported
\* tor_connection_refused
C25_RefusedCase ==
    /\ Merged
    /\ \E d \in InstancesOf("F1") : StatusOf(d, "F1") = "tor_connection_refused"
    /\ \E k \in Resolved("F1") : Get(results[k], "status", None) = "exception"

(***************************************************************************)
(* C26: targets on which no instance succeeded, checked under SpecCV       *)
(***************************************************************************)
\* the sum of the three recovery counters
RecoveryTotal ==
    cv_stats.recovered_from_timeout + cv_stats.recovered_from_dns_fail
        + cv_stats.recovered_from_error

\* the instance results the chosen result of their target strictly outranks
OutrankedByChosen ==
    {p \in MeasuredFps \X DOMAIN files :
        /\ p[2] \in InstancesOf(p[1])
        /\ StatusOf(p[2], p[1]) # "success"
        /\ PriorityKey(DocOf(p[2], p[1])) > PriorityKey(DocOf(FirstBest(p[1]), p[1]))}

\* the targets no instance of which succeeded
Unrecovered == {fp \in MeasuredFps : Succeeded(fp) = {}}

\* C26 as stated: improved is false for a target no instance of which
\* succeeded, and the recovery counters count every non-success instance
\* result that the chosen result outranked, of such targets too
C26_CountedWithoutSuccess ==
    Merged =>
        /\ \A fp \in Unrecovered : \A k \in Resolved(fp) : ~results[k].cv.improved
        /\ RecoveryTotal = Cardinality(OutrankedByChosen)

\* C26 amended: for a target no instance of which succeeded improved is
\* false, the record carries no recovered_from list and no recovery counter
\* is incremented: the counters count the non-success instance results of
\* the targets that have a success and a failure, and only those
C26_NothingCountedWithoutSuccess ==
    Merged =>
        /\ \A fp \in Unrecovered : \A k \in Resolved(fp) :
              /\ ~results[k].cv.improved
              /\ ~Has(results[k].cv, "recovered_from")
        /\ RecoveryTotal =
              Cardinality({p \in OutrankedByChosen : p[1] \notin Unrecovered})
        /\ Unrecovered = MeasuredFps => RecoveryTotal = 0

\* C26 witness: the instances of F1 report dns_fail and timeout, none
\* succeeded, dns_fail was chosen and no counter was incremented
C26_Witness ==
    /\ Merged
    /\ "F1" \in Unrecovered
    /\ \E d, e \in InstancesOf("F1") :
          StatusOf(d, "F1") = "dns_fail" /\ StatusOf(e, "F1") = "timeout"
    /\ \E k \in Resolved("F1") : results[k].status = "dns_fail"
    /\ <<"F1", 1>> \in OutrankedByChosen \/ <<"F1", 2>> \in OutrankedByChosen
    /\ RecoveryTotal = 0

(***************************************************************************)
(* C27: the consistency tally, checked under SpecCV                        *)
(***************************************************************************)
\* the targets every reporting instance of which succeeded
AllSucceeded == {fp \in MeasuredFps : Succeeded(fp) = InstancesOf(fp)}

\* C27: all_success counts the targets every reporting instance of which
\* succeeded, all_failed those no reporting instance of which succeeded,
\* mixed the others, and the three sum to the number of resolved targets
C27_ConsistencyTally ==
    Merged =>
        LET c == cv_stats.consistency
        IN  /\ c.all_success = Cardinality(AllSucceeded)
            /\ c.all_failed = Cardinality(Unrecovered)
            /\ c.mixed = Cardinality(MeasuredFps \ (AllSucceeded \cup Unrecovered))
            /\ AllSucceeded \cap Unrecovered = {}
            /\ c.all_success + c.all_failed + c.mixed = Cardinality(MeasuredFps)
            /\ \A fp \in MeasuredFps : Cardinality(Resolved(fp)) = 1

\* C27 witness: F1 has a success and a failure, F2 only a success, and the
\* tally counts one mixed and one all_success target
C27_Witness ==
    /\ Merged
    /\ MeasuredFps = {"F1", "F2"}
    /\ Succeeded("F1") # {} /\ Succeeded("F1") # InstancesOf("F1")
    /\ "F2" \in AllSucceeded
    /\ cv_stats.consistency = [all_success |-> 1, all_failed |-> 0, mixed |-> 1]

(***************************************************************************)
(* C28: the outcome-category counts, checked under SpecCategories          *)
(***************************************************************************)
\* the sum of the nine dns_* counts of the report
CategorySum ==
    LET md == report.metadata
    IN  md.dns_success + md.dns_fail + md.dns_timeout + md.dns_wrong_ip
          + md.dns_socks_error + md.dns_network_error + md.dns_error
          + md.dns_exception + md.dns_unknown

\* the records of the report whose status no dns_* count covers and which
\* are not unreachable either; a record without status is counted as unknown
Uncategorised ==
    {k \in DOMAIN report.results :
        /\ Has(report.results[k], "status")
        /\ report.results[k].status \notin
              CountedOutcomes \cup {"exception", "unknown", "relay_unreachable"}}

FullRate == 10000

\* C29: tested_relays does not exceed consensus_relays and dns_success does
\* not exceed tested_relays, so neither rate exceeds 100 percent
C29_RatesBounded ==
    pc = "done" =>
        LET md == report.metadata
        IN  /\ md.tested_relays <= md.consensus_relays
            /\ md.reachability_rate_percent <= FullRate
            /\ md.dns_success <= md.tested_relays
            /\ md.dns_success_rate_percent <= FullRate

\* the same statement of the DNS success rate alone, and of the reachability
\* rate when no scan_stats summary declares a total
C29_SuccessRateBounded ==
    pc = "done" =>
        LET md == report.metadata
        IN  /\ md.dns_success <= md.tested_relays
            /\ md.dns_success_rate_percent <= FullRate
            /\ ScanTotal = 0 =>
                  /\ md.tested_relays <= md.consensus_relays
                  /\ md.reachability_rate_percent <= FullRate

\* a report whose scan_stats summary declares fewer circuits than targets
\* were tested
C29_ExcessCase ==
    /\ pc = "done"
    /\ ScanTotal = 1
    /\ report.metadata.tested_relays = 3
    /\ report.metadata.reachability_rate_percent = 3 * FullRate

(***************************************************************************)
(* Claims on runs in a row, checked under SpecChain                        *)
(***************************************************************************)
\* the reports of the runs so far, the one just written last
RunReports ==
    [i \in 1..(Len(history) + 1) |->
        IF i <= Len(history) THEN history[i].report ELSE report]

\* the places of a report that hold a record of fp
PlacesOf(rep, fp) ==
    {k \in DOMAIN rep.results : Get(rep.results[k], "exit_fingerprint", None) = fp}

\* the record of fp in a report that holds one
RecordOf(rep, fp) == rep.results[CHOOSE k \in PlacesOf(rep, fp) : TRUE]

\* fp has exactly one record in the report of every run so far
InEveryRun(fp) == \A i \in DOMAIN RunReports : Cardinality(PlacesOf(RunReports[i], fp)) = 1

RECURSIVE TrailingFailures(_, _)
\* the number of runs in a row, run i last, in which fp did not succeed
TrailingFailures(i, fp) ==
    IF i = 0 THEN 0
    ELSE IF Get(RecordOf(RunReports[i], fp), "status", None) = "success" THEN 0
    ELSE 1 + TrailingFailures(i - 1, fp)

\* the targets of the batches
ChainTargets == {"F1", "F2", "F3"}

\* C23: the consecutive_failures of a target that is in the report of every
\* run of the chain is the number of runs in a row, the last one included, in
\* which its outcome was not success: 0 after a success, 1 on a first
\* failure, one more with each further failure
C23_StreakCountsRuns ==
    pc = "done" =>
        \A fp \in ChainTargets :
            InEveryRun(fp) =>
                LET n == Len(RunReports)
                    now == RecordOf(report, fp)
                IN  /\ now.consecutive_failures = TrailingFailures(n, fp)
                    /\ Get(now, "status", None) = "success" => now.consecutive_failures = 0
                    /\ (Get(now, "status", None) # "success" /\ n > 1) =>
                          now.consecutive_failures =
                              RecordOf(RunReports[n - 1], fp).consecutive_failures + 1
                    /\ (Get(now, "status", None) # "success" /\ n = 1) =>
                          now.consecutive_failures = 1

\* C23 witness: after three cross-validated runs F2, which timed out in each,
\* has a streak of 3 and F1, which failed, succeeded and failed, a streak of 1
C23_Witness ==
    /\ pc = "done"
    /\ mode = "cv"
    /\ Len(history) = MaxRuns - 1
    /\ InEveryRun("F1") /\ InEveryRun("F2")
    /\ RecordOf(report, "F2").consecutive_failures = MaxRuns
    /\ RecordOf(RunReports[MaxRuns - 2], "F1").consecutive_failures = 1
    /\ RecordOf(RunReports[MaxRuns - 1], "F1").consecutive_failures = 0
    /\ RecordOf(report, "F1").consecutive_failures = 1

\* the run before this one, when there is one
LastRun == history[Len(history)]

\* this run was given the batch of the run before and, as previous report,
\* the report that run wrote
RoundTrip ==
    /\ pc = "done"
    /\ history # <<>>
    /\ files = LastRun.files
    /\ cf_files = LastRun.cf_files
    /\ scan_files = LastRun.scan_files
    /\ previous = ReadBack(LastRun.report)

\* the streak the report read back holds for fp: that of its last record of
\* fp, 0 when that record is a success or when it has no record of fp
StreakReadBack(fp) ==
    LET ks == IF TruthyFp(fp) THEN PlacesOf(LastRun.report, fp) ELSE {}
    IN  IF ks = {} THEN 0
        ELSE LET r == LastRun.report.results[CHOOSE k \in ks : \A l \in ks : l <= k]
             IN  IF Get(r, "status", None) = "success" THEN 0
                 ELSE r.consecutive_failures

\* C21 as stated: every record of the new report has the consecutive_failures
\* of the corresponding record of the report read back
C21_SameStreaks ==
    RoundTrip =>
        /\ Len(report.results) = Len(LastRun.report.results)
        /\ \A k \in DOMAIN report.results :
              report.results[k].consecutive_failures =
                  LastRun.report.results[k].consecutive_failures

\* C21 amended: the new report has the records of the report read back, in
\* the same order; a record of outcome success has 0 in both, and a record of
\* any other outcome has the streak read back for its target plus 1, which is
\* the value of the corresponding record plus 1 when the target has one
\* record in the report
C21_StreaksContinue ==
    RoundTrip =>
        /\ Len(report.results) = Len(LastRun.report.results)
        /\ \A k \in DOMAIN report.results :
              LET new == report.results[k]
                  old == LastRun.report.results[k]
                  fp == Get(new, "exit_fingerprint", None)
              IN  /\ Get(new, "exit_fingerprint", None) = Get(old, "exit_fingerprint", None)
                  /\ Get(new, "status", None) = Get(old, "status", None)
                  /\ Get(new, "status", None) = "success" =>
                        new.consecutive_failures = 0 /\ old.consecutive_failures = 0
                  /\ Get(new, "status", None) # "success" =>
                        /\ new.consecutive_failures = StreakReadBack(fp) + 1
                        /\ Cardinality(PlacesOf(report, fp)) = 1 =>
                              new.consecutive_failures = old.consecutive_failures + 1

\* C21 witness: a single-source batch whose two documents of F1 are a timeout
\* and, later in the listing, a success, run twice in a row: the timeout's
\* record has streak 1 in both reports, F2's has 1 then 2
C21_Witness ==
    /\ RoundTrip
    /\ mode = "single"
    /\ Cardinality(PlacesOf(report, "F1")) = 2
    /\ \E k \in PlacesOf(report, "F1") :
          /\ report.results[k].status = "timeout"
          /\ report.results[k].consecutive_failures = 1
          /\ LastRun.report.results[k].consecutive_failures = 1
    /\ RecordOf(LastRun.report, "F2").consecutive_failures = 1
    /\ RecordOf(report, "F2").consecutive_failures = 2

FirstCall == history[1].report

\* the second call has returned
CalledTwice == pc = "done" /\ history # <<>>

\* C30 as stated: the second call returns as many records, the same
\* unreachable_relays and the same circuit_* counts as the first
C30_SameOutcome ==
    CalledTwice =>
        /\ Len(report.results) = Len(FirstCall.results)
        /\ report.metadata.unreachable_relays = FirstCall.metadata.unreachable_relays
        /\ report.metadata.circuit = FirstCall.metadata.circuit

\* C30 amended: the second call returns the records of the first, the same
\* unreachable_relays and the same dns_* counts, but every circuit_* count is
\* 0, the circuit failures being in the results list already: its circuit_*
\* counts are those of the first call only if the first call appended none
C30_CountsLost ==
    CalledTwice =>
        /\ report.results = FirstCall.results
        /\ report.metadata.unreachable_relays = FirstCall.metadata.unreachable_relays
        /\ report.metadata.tested_relays = FirstCall.metadata.tested_relays
        /\ CategorySum = FirstCall.metadata.tested_relays - Cardinality(Uncategorised)
        /\ \A t \in DOMAIN report.metadata.circuit : report.metadata.circuit[t] = 0
        /\ report.metadata.circuit = FirstCall.metadata.circuit
              <=> \A k \in DOMAIN origin : origin[k] = "doc"

\* C30 witness: the first call appended a circuit failure and counted it,
\* the second call returned the same records and counted none
C30_Witness ==
    /\ CalledTwice
    /\ Cardinality({k \in DOMAIN origin : origin[k] = "cf"}) = 1
    /\ FirstCall.metadata.circuit["circuit_timeout"] = 1
    /\ FirstCall.metadata.unreachable_relays >= 1
    /\ report.results = FirstCall.results
    /\ CircuitSum = 0

====
